---- MODULE Spec2Model ----
(***************************************************************************)
(* Resilience layer of the REanna router: the circuit breaker              *)
(* (app/utils/circuit_breaker.py), its callers in the Rollout client       *)
(* (app/services/rollout_client.py) and the alert manager                  *)
(* (app/utils/alert_manager.py).                                           *)
(***************************************************************************)
EXTENDS Integers, Sequences, FiniteSets, TLC

VARIABLES
    circuit,            \* the breaker of scripts/test_circuit_breaker.py
    now,                \* time.time(), in seconds
    obs,                \* what a run of that breaker has shown so far
    last,               \* the last operation and what it returned
    rollout_client,     \* RolloutClient: its two breakers
    callers,            \* the calls of call_api / call_mcp_tool in flight
    service,            \* whether the Rollout service has healed
    api_monitor,        \* monitoring.api_monitor                
    configs,            \* AlertManager._configs
    failure_counts,     \* AlertManager._failure_counts
    failure_timestamps, \* AlertManager._failure_timestamps
    alerted_entities,   \* AlertManager._alerted_entities
    failure_log,        \* every failure recorded so far, per entity and operation
    utcnow,             \* datetime.utcnow(), in minutes
    failure_kinds,      \* the alert type of each failure that SpecWindows records
    monitor_log         \* every response time add_response_time was given

cbVars == <<circuit, obs>>

clientVars == <<rollout_client, callers, service, api_monitor>>

alertVars ==
    <<configs, failure_counts, failure_timestamps, alerted_entities,
      failure_log, utcnow, failure_kinds>>

vars == <<cbVars, now, last, clientVars, alertVars, monitor_log>>

(***************************************************************************)
(* Bounds of the model.                                                    *)
(***************************************************************************)
\* time.time() advances in steps of TickStep seconds, up to MaxTime
TickStep == 5
MaxTime == 125
\* the episode counters of obs saturate here
ObsCap == 6

(***************************************************************************)
(* CircuitState and the exception classes.                                 *)
(***************************************************************************)
CLOSED == "closed"
OPEN == "open"
HALF_OPEN == "half_open"

CircuitState == {CLOSED, OPEN, HALF_OPEN}

\* the classes an exception object is an instance of (isinstance follows
\* the class hierarchy); "None" is record_failure's default argument
Bases(exc) ==
    CASE exc = "RolloutError" -> {"RolloutError", "Exception"}
      [] exc = "RolloutAuthError" -> {"RolloutAuthError", "RolloutError", "Exception"}
      [] exc = "RolloutRateLimitError" -> {"RolloutRateLimitError", "RolloutError", "Exception"}
      [] exc = "RolloutServerError" -> {"RolloutServerError", "RolloutError", "Exception"}
      [] exc = "RolloutCircuitOpenError" -> {"RolloutCircuitOpenError", "RolloutError", "Exception"}
      [] exc = "ValueError" -> {"ValueError", "Exception"}
      [] OTHER -> {}

Exceptions ==
    {"None", "RolloutError", "RolloutAuthError", "RolloutRateLimitError",
     "RolloutServerError", "RolloutCircuitOpenError", "ValueError"}

(***************************************************************************)
(* The locks: `async with self._state_lock:` of a breaker and              *)
(* `with self._lock:` of the monitor.  `locked` says that the lock is      *)
(* held; a caller that finds it held waits, which the actions express in   *)
(* their guards.                                                           *)
(***************************************************************************)
acquire(self) == [self EXCEPT !.locked = TRUE]

\* leaving the block without giving the lock back
release_never(self) == self

release(self) == [self EXCEPT !.locked = FALSE]

(***************************************************************************)
(* ApiMonitor of utils/monitoring.py: three dictionaries under one lock.   *)
(* A dictionary is a function whose domain is the set of its keys; times   *)
(* are those of the clock `now`, and response times are whole numbers.     *)
(***************************************************************************)
\* the value of a field nothing has stamped yet
None == -1

\* the most response times one endpoint keeps: 1000 in add_response_time,
\* scaled down
WindowCap == 2

\* {}
EmptyMap == [key \in {} |-> None]

\* d[key] = value
SetItem(d, key, value) ==
    [k \in DOMAIN d \cup {key} |-> IF k = key THEN value ELSE d[k]]

\* d.get(key, default)
Get(d, key, default) == IF key \in DOMAIN d THEN d[key] ELSE default

ApiCallStats(endpoint) ==
    [endpoint |-> endpoint,
     success_count |-> 0,
     error_count |-> 0,
     retry_count |-> 0,
     total_response_time |-> 0,
     response_times |-> <<>>,
     rate_limit_hits |-> 0,
     last_called |-> None]

RateLimitStats(endpoint) ==
    [endpoint |-> endpoint,
     limit |-> 0,
     remaining |-> 0,
     reset_time |-> None,
     last_updated |-> None]

CircuitBreakerStats(name) ==
    [name |-> name,
     current_state |-> "CLOSED",
     failure_count |-> 0,
     state_change_count |-> 0,
     last_state_change |-> None,
     last_failure |-> None,
     last_success |-> None,
     open_duration |-> 0,
     total_open_time |-> 0]

\* nothing recorded yet: no response times, no calls of the monitor
MonitorLog == [times |-> EmptyMap, calls |-> 0]

\* ApiMonitor.__init__
ApiMonitor ==
    [locked |-> FALSE,
     api_stats |-> EmptyMap,
     rate_limits |-> EmptyMap,
     circuit_stats |-> EmptyMap]

\* ApiMetricsContext.__exit__ as the client specifications see it: the
\* call takes the monitor's lock and gives it back; what it writes under
\* the lock is record_api_call below
ApiMetricsContext_exit(monitor) == release(acquire(monitor))

\* add_response_time that keeps the running sum of everything ever added
add_response_time_keep_sum(stats, response_time) ==
    [stats EXCEPT
        !.response_times =
            IF Len(@) + 1 > WindowCap THEN Tail(Append(@, response_time))
            ELSE Append(@, response_time),
        !.total_response_time = @ + response_time]

\* ApiCallStats.add_response_time
add_response_time(stats, response_time) ==
    LET appended == Append(stats.response_times, response_time)
        total == stats.total_response_time + response_time
    IN  IF Len(appended) > WindowCap
        THEN [stats EXCEPT !.response_times = Tail(appended),
                           !.total_response_time = total - Head(appended)]
        ELSE [stats EXCEPT !.response_times = appended,
                           !.total_response_time = total]

\* ApiCallStats.average_response_time, a quotient kept as numerator and
\* denominator; 0.0 is 0 / 1
average_response_time(stats) ==
    IF stats.success_count = 0
    THEN [numerator |-> 0, denominator |-> 1]
    ELSE [numerator |-> stats.total_response_time,
          denominator |-> stats.success_count]

\* ApiMonitor.record_api_call(endpoint, success, response_time, retries)
\* at time t
record_api_call(monitor, endpoint, success, response_time, retries, t) ==
    LET self == acquire(monitor)
        stats == Get(self.api_stats, endpoint, ApiCallStats(endpoint))
        counted ==
            IF success
            THEN add_response_time(
                     [stats EXCEPT !.success_count = @ + 1], response_time)
            ELSE [stats EXCEPT !.error_count = @ + 1]
        stamped == [counted EXCEPT !.retry_count = @ + retries,
                                   !.last_called = t]
    IN  release([self EXCEPT !.api_stats = SetItem(@, endpoint, stamped)])

\* ApiMonitor.record_rate_limit(endpoint, limit, remaining, reset_time)
\* at time t
record_rate_limit(monitor, endpoint, limit, remaining, reset_time, t) ==
    LET self == acquire(monitor)
        stats == [Get(self.rate_limits, endpoint, RateLimitStats(endpoint))
                     EXCEPT !.limit = limit, !.remaining = remaining,
                            !.reset_time = reset_time, !.last_updated = t]
    IN  release([self EXCEPT
            !.rate_limits = SetItem(@, endpoint, stats),
            !.api_stats =
                IF remaining = 0 /\ endpoint \in DOMAIN @
                THEN [@ EXCEPT ![endpoint].rate_limit_hits = @ + 1]
                ELSE @])

\* ApiMonitor.record_circuit_state(name, state, failure_count) at time t.
\* The statements run in the order of the code: last_state_change is
\* stamped before the time spent in "OPEN" is taken from it
record_circuit_state(monitor, name, state, failure_count, t) ==
    LET self == acquire(monitor)
        stats == Get(self.circuit_stats, name, CircuitBreakerStats(name))
        old_state == stats.current_state
        counted == [stats EXCEPT !.failure_count = failure_count]
        changed ==
            IF old_state # state
            THEN LET stamped == [counted EXCEPT !.state_change_count = @ + 1,
                                                !.last_state_change = t]
                     open_duration == t - stamped.last_state_change
                 IN  IF old_state = "OPEN" /\ stamped.last_state_change # None
                     THEN [stamped EXCEPT !.open_duration = open_duration,
                                          !.total_open_time = @ + open_duration]
                     ELSE stamped
            ELSE counted
        current == [changed EXCEPT !.current_state = state]
        marked ==
            IF state = "OPEN" /\ old_state # "OPEN"
            THEN [current EXCEPT !.last_failure = t]
            ELSE IF state = "CLOSED" /\ old_state # "CLOSED"
                 THEN [current EXCEPT !.last_success = t]
                 ELSE current
    IN  release([self EXCEPT !.circuit_stats = SetItem(@, name, marked)])

\* a query that stores the default record it returns
get_api_stats_setdefault(monitor, endpoint) ==
    LET self == acquire(monitor)
        stats == Get(self.api_stats, endpoint, ApiCallStats(endpoint))
    IN  [monitor |-> release([self EXCEPT
                        !.api_stats = SetItem(@, endpoint, stats)]),
         ret |-> SetItem(EmptyMap, endpoint, stats)]

\* ApiMonitor.get_api_stats(endpoint); endpoint "None" asks for all
get_api_stats(monitor, endpoint) ==
    LET self == acquire(monitor) IN
    [monitor |-> release(self),
     ret |-> IF endpoint # "None"
             THEN SetItem(EmptyMap, endpoint,
                      Get(self.api_stats, endpoint, ApiCallStats(endpoint)))
             ELSE self.api_stats]

\* ApiMonitor.get_rate_limits(endpoint)
get_rate_limits(monitor, endpoint) ==
    LET self == acquire(monitor) IN
    [monitor |-> release(self),
     ret |-> IF endpoint # "None"
             THEN SetItem(EmptyMap, endpoint,
                      Get(self.rate_limits, endpoint, RateLimitStats(endpoint)))
             ELSE self.rate_limits]

\* ApiMonitor.get_circuit_stats(name)
get_circuit_stats(monitor, name) ==
    LET self == acquire(monitor) IN
    [monitor |-> release(self),
     ret |-> IF name # "None"
             THEN SetItem(EmptyMap, name,
                      Get(self.circuit_stats, name, CircuitBreakerStats(name)))
             ELSE self.circuit_stats]

\* ApiMonitor.reset_stats
reset_stats(monitor) ==
    release([acquire(monitor) EXCEPT !.api_stats = EmptyMap,
                                     !.rate_limits = EmptyMap,
                                     !.circuit_stats = EmptyMap])

(***************************************************************************)
(* CircuitBreaker.__init__ and the breakers the repository constructs.     *)
(***************************************************************************)
CircuitBreaker(name, threshold, timeout, max_calls, excluded) ==
    [name |-> name,
     failure_threshold |-> threshold,
     recovery_timeout |-> timeout,
     half_open_max_calls |-> max_calls,
     excluded_exceptions |-> excluded,
     state |-> CLOSED,
     failures |-> 0,
     last_failure_time |-> 0,
     successful_half_open_calls |-> 0,
     half_open_calls_in_progress |-> 0,
     locked |-> FALSE]

test_circuit == CircuitBreaker("test-circuit", 3, 10, 2, {})

api_circuit == CircuitBreaker("rollout-api", 3, 60, 1, {"RolloutRateLimitError"})

mcp_circuit == CircuitBreaker("rollout-mcp", 5, 120, 1, {})

\* track_circuit_breaker(self.name, self._state.value, self._failures):
\* the notification, and whether the breaker's lock is held as it is made
track_circuit_breaker(b) ==
    [name |-> b.name, state |-> b.state, failure_count |-> b.failures,
     locked |-> b.locked]

(***************************************************************************)
(* The three operations of a breaker, as functions of the breaker object   *)
(* (and the clock): the new object, the returned value and the             *)
(* notifications sent to the monitoring system.                            *)
(***************************************************************************)
\* record_success() that also closes an OPEN breaker
record_success_from_open(b) ==
    IF b.state = HALF_OPEN \/ b.state = OPEN
    THEN LET b1 == [b EXCEPT !.successful_half_open_calls = @ + 1] IN
         IF b1.successful_half_open_calls >= b1.half_open_max_calls
         THEN LET b2 == [b1 EXCEPT !.state = CLOSED,
                                   !.failures = 0,
                                   !.successful_half_open_calls = 0,
                                   !.half_open_calls_in_progress = 0] IN
              [b |-> b2, notes |-> <<track_circuit_breaker(b2)>>]
         ELSE [b |-> b1, notes |-> <<>>]
    ELSE IF b.state = CLOSED
    THEN LET b1 == [b EXCEPT !.failures = 0] IN
         [b |-> b1, notes |-> <<track_circuit_breaker(b1)>>]
    ELSE [b |-> b, notes |-> <<>>]

\* record_success() that keeps the failures accumulated in CLOSED
record_success_keeps_failures(b) ==
    IF b.state = HALF_OPEN
    THEN LET b1 == [b EXCEPT !.successful_half_open_calls = @ + 1] IN
         IF b1.successful_half_open_calls >= b1.half_open_max_calls
         THEN LET b2 == [b1 EXCEPT !.state = CLOSED,
                                   !.failures = 0,
                                   !.successful_half_open_calls = 0,
                                   !.half_open_calls_in_progress = 0] IN
              [b |-> b2, notes |-> <<track_circuit_breaker(b2)>>]
         ELSE [b |-> b1, notes |-> <<>>]
    ELSE IF b.state = CLOSED
    THEN [b |-> b, notes |-> <<track_circuit_breaker(b)>>]
    ELSE [b |-> b, notes |-> <<>>]

record_success(b) ==
    LET self == acquire(b)
        r ==
            IF self.state = HALF_OPEN
            THEN LET b1 == [self EXCEPT !.successful_half_open_calls = @ + 1] IN
                 IF b1.successful_half_open_calls >= b1.half_open_max_calls
                 THEN LET b2 == [b1 EXCEPT !.state = CLOSED,
                                           !.failures = 0,
                                           !.successful_half_open_calls = 0,
                                           !.half_open_calls_in_progress = 0] IN
                      [b |-> b2, notes |-> <<track_circuit_breaker(b2)>>]
                 ELSE [b |-> b1, notes |-> <<>>]
            ELSE IF self.state = CLOSED
            THEN LET b1 == [self EXCEPT !.failures = 0] IN
                 [b |-> b1, notes |-> <<track_circuit_breaker(b1)>>]
            ELSE [b |-> self, notes |-> <<>>]
    IN [r EXCEPT !.b = release(@)]

\* an exclusion test that compares the object with the classes
is_excluded_never(b, exception) == exception \in {"Exception"} \cap b.excluded_exceptions

\* `if exception and any(isinstance(exception, exc) for exc in ...)`
is_excluded(b, exception) ==
    /\ exception # "None"
    /\ \E exc \in b.excluded_exceptions : exc \in Bases(exception)

\* record_failure() that reopens from HALF_OPEN with the trial calls still
\* counted as in progress
record_failure_keeps_trials(b, exception, t) ==
    IF is_excluded(b, exception)
    THEN [b |-> b, notes |-> <<>>]
    ELSE IF b.state = CLOSED
    THEN LET b1 == [b EXCEPT !.failures = @ + 1, !.last_failure_time = t] IN
         IF b1.failures >= b1.failure_threshold
         THEN LET b2 == [b1 EXCEPT !.state = OPEN] IN
              [b |-> b2, notes |-> <<track_circuit_breaker(b2)>>]
         ELSE [b |-> b1, notes |-> <<>>]
    ELSE IF b.state = HALF_OPEN
    THEN LET b1 == [b EXCEPT !.state = OPEN,
                             !.last_failure_time = t,
                             !.successful_half_open_calls = 0] IN
         [b |-> b1, notes |-> <<track_circuit_breaker(b1)>>]
    ELSE [b |-> b, notes |-> <<>>]

\* record_failure() that stamps the time of a failure also while OPEN
record_failure_restamps_open(b, exception, t) ==
    IF is_excluded(b, exception)
    THEN [b |-> b, notes |-> <<>>]
    ELSE IF b.state = CLOSED
    THEN LET b1 == [b EXCEPT !.failures = @ + 1, !.last_failure_time = t] IN
         IF b1.failures >= b1.failure_threshold
         THEN LET b2 == [b1 EXCEPT !.state = OPEN] IN
              [b |-> b2, notes |-> <<track_circuit_breaker(b2)>>]
         ELSE [b |-> b1, notes |-> <<>>]
    ELSE IF b.state = HALF_OPEN
    THEN LET b1 == [b EXCEPT !.state = OPEN,
                             !.last_failure_time = t,
                             !.successful_half_open_calls = 0,
                             !.half_open_calls_in_progress = 0] IN
         [b |-> b1, notes |-> <<track_circuit_breaker(b1)>>]
    ELSE [b |-> [b EXCEPT !.last_failure_time = t], notes |-> <<>>]

\* record_failure() that reopens from HALF_OPEN without a new time stamp
record_failure_no_restamp(b, exception, t) ==
    IF is_excluded(b, exception)
    THEN [b |-> b, notes |-> <<>>]
    ELSE IF b.state = CLOSED
    THEN LET b1 == [b EXCEPT !.failures = @ + 1, !.last_failure_time = t] IN
         IF b1.failures >= b1.failure_threshold
         THEN LET b2 == [b1 EXCEPT !.state = OPEN] IN
              [b |-> b2, notes |-> <<track_circuit_breaker(b2)>>]
         ELSE [b |-> b1, notes |-> <<>>]
    ELSE IF b.state = HALF_OPEN
    THEN LET b1 == [b EXCEPT !.state = OPEN,
                             !.successful_half_open_calls = 0,
                             !.half_open_calls_in_progress = 0] IN
         [b |-> b1, notes |-> <<track_circuit_breaker(b1)>>]
    ELSE [b |-> b, notes |-> <<>>]

record_failure(b, exception, t) ==
    LET self == acquire(b)
        r ==
            IF is_excluded(self, exception)
            THEN [b |-> self, notes |-> <<>>]
            ELSE IF self.state = CLOSED
            THEN LET b1 == [self EXCEPT !.failures = @ + 1, !.last_failure_time = t] IN
                 IF b1.failures >= b1.failure_threshold
                 THEN LET b2 == [b1 EXCEPT !.state = OPEN] IN
                      [b |-> b2, notes |-> <<track_circuit_breaker(b2)>>]
                 ELSE [b |-> b1, notes |-> <<>>]
            ELSE IF self.state = HALF_OPEN
            THEN LET b1 == [self EXCEPT !.state = OPEN,
                                     !.last_failure_time = t,
                                     !.successful_half_open_calls = 0,
                                     !.half_open_calls_in_progress = 0] IN
                 [b |-> b1, notes |-> <<track_circuit_breaker(b1)>>]
            ELSE [b |-> self, notes |-> <<>>]
    IN [r EXCEPT !.b = release(@)]

\* allow_request() that needs more than recovery_timeout to have elapsed
allow_request_strict(b, t) ==
    IF b.state = CLOSED
    THEN [b |-> b, ret |-> TRUE, notes |-> <<>>]
    ELSE IF b.state = OPEN
    THEN IF t - b.last_failure_time > b.recovery_timeout
         THEN LET b1 == [b EXCEPT !.state = HALF_OPEN,
                                  !.successful_half_open_calls = 0,
                                  !.half_open_calls_in_progress = 0] IN
              [b |-> b1, ret |-> TRUE, notes |-> <<track_circuit_breaker(b1)>>]
         ELSE [b |-> b, ret |-> FALSE, notes |-> <<>>]
    ELSE IF b.half_open_calls_in_progress < b.half_open_max_calls
    THEN [b |-> [b EXCEPT !.half_open_calls_in_progress = @ + 1],
          ret |-> TRUE, notes |-> <<>>]
    ELSE [b |-> b, ret |-> FALSE, notes |-> <<>>]

\* allow_request that leaves OPEN without telling the monitor
allow_request_untracked(b, t) ==
    LET self == acquire(b)
        r ==
            IF self.state = CLOSED
            THEN [b |-> self, ret |-> TRUE, notes |-> <<>>]
            ELSE IF self.state = OPEN
            THEN IF t - self.last_failure_time >= self.recovery_timeout
                 THEN [b |-> [self EXCEPT !.state = HALF_OPEN,
                                          !.successful_half_open_calls = 0,
                                          !.half_open_calls_in_progress = 0],
                       ret |-> TRUE, notes |-> <<>>]
                 ELSE [b |-> self, ret |-> FALSE, notes |-> <<>>]
            ELSE IF self.half_open_calls_in_progress < self.half_open_max_calls
            THEN [b |-> [self EXCEPT !.half_open_calls_in_progress = @ + 1],
                  ret |-> TRUE, notes |-> <<>>]
            ELSE [b |-> self, ret |-> FALSE, notes |-> <<>>]
    IN [r EXCEPT !.b = release(@)]

allow_request(b, t) ==
    LET self == acquire(b)
        r ==
            IF self.state = CLOSED
            THEN [b |-> self, ret |-> TRUE, notes |-> <<>>]
            ELSE IF self.state = OPEN
            THEN IF t - self.last_failure_time >= self.recovery_timeout
                 THEN LET b1 == [self EXCEPT !.state = HALF_OPEN,
                                          !.successful_half_open_calls = 0,
                                          !.half_open_calls_in_progress = 0] IN
                      [b |-> b1, ret |-> TRUE, notes |-> <<track_circuit_breaker(b1)>>]
                 ELSE [b |-> self, ret |-> FALSE, notes |-> <<>>]
            ELSE IF self.half_open_calls_in_progress < self.half_open_max_calls
            THEN [b |-> [self EXCEPT !.half_open_calls_in_progress = @ + 1],
                  ret |-> TRUE, notes |-> <<>>]
            ELSE [b |-> self, ret |-> FALSE, notes |-> <<>>]
    IN [r EXCEPT !.b = release(@)]

(***************************************************************************)
(* Observation of a run: what the last operation was and returned, and,    *)
(* per HALF_OPEN episode, how many calls allow_request() admitted and how  *)
(* many successes were recorded.                                           *)
(***************************************************************************)
Sat(n) == IF n < ObsCap THEN n ELSE ObsCap

NoOp == [op |-> "init", who |-> "none", exc |-> "None", ret |-> FALSE, notes |-> <<>>]

\* granted:    calls admitted by allow_request() in the current episode
\* successes:  record_success() calls since the breaker entered HALF_OPEN
\* streak:     failures recorded in CLOSED since the last record_success()
\* counted_at: time of the last failure recorded in CLOSED or HALF_OPEN
\* via:        how the breaker last became OPEN
ObsInit ==
    [granted |-> 0, successes |-> 0, streak |-> 0, counted_at |-> 0,
     via |-> "none"]

ObsAllow(o, b, r) ==
    IF b.state = OPEN /\ r.b.state = HALF_OPEN
    THEN [o EXCEPT !.granted = 1, !.successes = 0]
    ELSE IF b.state = HALF_OPEN /\ r.ret
    THEN [o EXCEPT !.granted = Sat(@ + 1)]
    ELSE o

ObsSuccess(o, b) ==
    IF b.state = HALF_OPEN
    THEN [o EXCEPT !.successes = Sat(@ + 1), !.streak = 0]
    ELSE [o EXCEPT !.streak = 0]

ObsFailure(o, b, exception, t) ==
    IF exception \in b.excluded_exceptions
    THEN o
    ELSE IF b.state = CLOSED
    THEN [o EXCEPT !.streak = Sat(@ + 1), !.counted_at = t]
    ELSE IF b.state = HALF_OPEN
    THEN [o EXCEPT !.counted_at = t, !.via = "reopen"]
    ELSE o

ObsTrip(o, b, r) ==
    IF b.state = CLOSED /\ r.b.state = OPEN THEN [o EXCEPT !.via = "trip"] ELSE o

(***************************************************************************)
(* The parts of the state a specification does not exercise stay as        *)
(* constructed.                                                            *)
(***************************************************************************)
Callers == {"c1", "c2"}

IdleCall == [pc |-> "idle", retry_count |-> 0, tool_name |-> "none"]

ClientIdle ==
    /\ rollout_client = [api_circuit |-> api_circuit, mcp_circuit |-> mcp_circuit]
    /\ callers = [c \in Callers |-> IdleCall]
    /\ service = "degraded"
    /\ api_monitor = ApiMonitor
    /\ monitor_log = MonitorLog

(***************************************************************************)
(* AlertManager.  An error message is a sequence of characters.            *)
(***************************************************************************)
ErrorTexts ==
    [timeout |->
        <<"A", "P", "I", " ", "C", "o", "n", "n", "e", "c", "t", "i", "o",
          "n", " ", "T", "i", "m", "e", "o", "u", "t">>,
     rate_limit |->
        <<"R", "a", "t", "e", " ", "L", "i", "m", "i", "t", " ", "E", "x",
          "c", "e", "e", "d", "e", "d">>,
     auth |->
        <<"A", "u", "t", "h", "e", "n", "t", "i", "c", "a", "t", "i", "o",
          "n", " ", "F", "a", "i", "l", "u", "r", "e">>,
     circuit |->
        <<"C", "i", "r", "c", "u", "i", "t", " ", "B", "r", "e", "a", "k",
          "e", "r", " ", "O", "p", "e", "n", ":", " ", "S", "e", "r", "v",
          "i", "c", "e", " ", "u", "n", "a", "v", "a", "i", "l", "a", "b",
          "l", "e">>]

Upper == <<"A", "B", "C", "D", "E", "F", "G", "H", "I", "J", "K", "L", "M",
           "N", "O", "P", "Q", "R", "S", "T", "U", "V", "W", "X", "Y", "Z">>

Lower == <<"a", "b", "c", "d", "e", "f", "g", "h", "i", "j", "k", "l", "m",
           "n", "o", "p", "q", "r", "s", "t", "u", "v", "w", "x", "y", "z">>

\* str.lower()
lower(str) ==
    [i \in 1..Len(str) |->
        IF \E k \in 1..26 : Upper[k] = str[i]
        THEN Lower[CHOOSE k \in 1..26 : Upper[k] = str[i]]
        ELSE str[i]]

\* `sub in str`
Contains(sub, str) ==
    \E i \in 1..(Len(str) - Len(sub) + 1) :
        SubSeq(str, i, i + Len(sub) - 1) = sub

\* _determine_alert_type that looks for the authentication words before
\* "rate limit"
determine_alert_type_auth_first(error) ==
    LET error_lower == lower(error) IN
    IF /\ Contains(<<"c", "i", "r", "c", "u", "i", "t">>, error_lower)
       /\ Contains(<<"o", "p", "e", "n">>, error_lower)
    THEN "CIRCUIT_BREAKER_OPEN"
    ELSE IF \/ Contains(<<"a", "u", "t", "h">>, error_lower)
            \/ Contains(<<"t", "o", "k", "e", "n">>, error_lower)
            \/ Contains(<<"c", "r", "e", "d", "e", "n", "t", "i", "a", "l", "s">>, error_lower)
    THEN "AUTH_FAILURE"
    ELSE IF Contains(<<"r", "a", "t", "e", " ", "l", "i", "m", "i", "t">>, error_lower)
    THEN "RATE_LIMIT_CRITICAL"
    ELSE "REPEATED_SYNC_FAILURE"

determine_alert_type(error) ==
    LET error_lower == lower(error) IN
    IF /\ Contains(<<"c", "i", "r", "c", "u", "i", "t">>, error_lower)
       /\ Contains(<<"o", "p", "e", "n">>, error_lower)
    THEN "CIRCUIT_BREAKER_OPEN"
    ELSE IF Contains(<<"r", "a", "t", "e", " ", "l", "i", "m", "i", "t">>, error_lower)
    THEN "RATE_LIMIT_CRITICAL"
    ELSE IF \/ Contains(<<"a", "u", "t", "h">>, error_lower)
            \/ Contains(<<"t", "o", "k", "e", "n">>, error_lower)
            \/ Contains(<<"c", "r", "e", "d", "e", "n", "t", "i", "a", "l", "s">>, error_lower)
    THEN "AUTH_FAILURE"
    ELSE "REPEATED_SYNC_FAILURE"

\* the alert type of each message
AlertTypeOf ==
    [key \in DOMAIN ErrorTexts |-> determine_alert_type(ErrorTexts[key])]

AlertType ==
    {"REPEATED_SYNC_FAILURE", "CIRCUIT_BREAKER_OPEN", "RATE_LIMIT_CRITICAL",
     "AUTH_FAILURE", "INTEGRATION_ERROR", "HEALTH_CHECK"}

AlertMethod == {"LOG", "EMAIL", "WEBHOOK", "SLACK"}

\* AlertConfig, with the defaults of its fields
AlertConfig(type, level, threshold, window_minutes, methods, recipients, cooldown_minutes) ==
    [enabled |-> TRUE,
     type |-> type,
     level |-> level,
     threshold |-> threshold,
     window_minutes |-> window_minutes,
     methods |-> methods,
     recipients |-> recipients,
     cooldown_minutes |-> cooldown_minutes]

default_configs ==
    [t \in AlertType |->
        CASE t = "REPEATED_SYNC_FAILURE" ->
               AlertConfig(t, "ERROR", 3, 60, <<"LOG", "EMAIL">>, <<>>, 30)
          [] t = "CIRCUIT_BREAKER_OPEN" ->
               AlertConfig(t, "ERROR", 1, 30, <<"LOG", "EMAIL">>, <<>>, 30)
          [] t = "RATE_LIMIT_CRITICAL" ->
               AlertConfig(t, "WARNING", 2, 30, <<"LOG">>, <<>>, 30)
          [] t = "AUTH_FAILURE" ->
               AlertConfig(t, "CRITICAL", 2, 30, <<"LOG", "EMAIL">>, <<>>, 30)
          [] t = "INTEGRATION_ERROR" ->
               AlertConfig(t, "WARNING", 5, 60, <<"LOG">>, <<>>, 30)
          [] t = "HEALTH_CHECK" ->
               AlertConfig(t, "INFO", 1, 1440, <<"LOG">>, <<>>, 30)]

\* the configurations the test scripts install with update_config
sync_failure_config ==
    AlertConfig("REPEATED_SYNC_FAILURE", "ERROR", 3, 60, <<"LOG", "WEBHOOK">>,
                <<"http://localhost">>, 5)

quick_sync_failure_config ==
    AlertConfig("REPEATED_SYNC_FAILURE", "ERROR", 2, 5, <<"LOG">>, <<>>, 1)

NewConfigs == {sync_failure_config, quick_sync_failure_config}

quick_circuit_breaker_config ==
    AlertConfig("CIRCUIT_BREAKER_OPEN", "ERROR", 1, 5, <<"LOG">>, <<>>, 1)

\* what configure_alert_system() of scripts/test_alerts.py leaves
quick_configs ==
    [default_configs EXCEPT
        !["REPEATED_SYNC_FAILURE"] = quick_sync_failure_config,
        !["CIRCUIT_BREAKER_OPEN"] = quick_circuit_breaker_config]

\* PUT /alert-configs/{alert_type}: the operator sends enabled, threshold,
\* window_minutes, methods, recipients and cooldown_minutes; type is the
\* key and level the level of the configuration in place
update_alert_config(alert_type, enabled, threshold, window_minutes, methods, recipients, cooldown_minutes) ==
    [AlertConfig(alert_type, default_configs[alert_type].level, threshold,
                 window_minutes, methods, recipients, cooldown_minutes)
        EXCEPT !.enabled = enabled]

\* the quick thresholds with two remote delivery methods, and the same muted
paging_config ==
    update_alert_config("REPEATED_SYNC_FAILURE", TRUE, 2, 5,
                        <<"WEBHOOK", "EMAIL">>, <<"ops">>, 1)

muted_config ==
    update_alert_config("REPEATED_SYNC_FAILURE", FALSE, 2, 5,
                        <<"WEBHOOK", "EMAIL">>, <<"ops">>, 1)

OperatorConfigs == {quick_sync_failure_config, paging_config, muted_config}

Entities == {"tour_1"}
Operations == {"sync"}

\* no entry in _alerted_entities
NoAlert == -1

\* AlertManager.__init__
AlertIdle ==
    /\ configs = default_configs
    /\ failure_counts = [e \in Entities |-> [o \in Operations |-> 0]]
    /\ failure_timestamps = [e \in Entities |-> [o \in Operations |-> <<>>]]
    /\ alerted_entities = [e \in Entities |-> [t \in AlertType |-> NoAlert]]
    /\ failure_log = [e \in Entities |-> [o \in Operations |-> <<>>]]
    /\ failure_kinds = [e \in Entities |-> [o \in Operations |-> <<>>]]
    /\ utcnow = 0

(***************************************************************************)
(* A breaker driven directly, as scripts/test_circuit_breaker.py does:     *)
(* any interleaving of allow_request, record_success and record_failure,   *)
(* the operations being serialized by the breaker's lock.                  *)
(***************************************************************************)
InitCB ==
    /\ circuit \in {test_circuit, api_circuit}
    /\ now = 0
    /\ obs = ObsInit
    /\ last = NoOp
    /\ ClientIdle
    /\ AlertIdle

AllowRequest ==
    LET r == allow_request(circuit, now) IN
    /\ circuit' = r.b
    /\ obs' = ObsAllow(obs, circuit, r)
    /\ last' = [op |-> "allow_request", who |-> "test", exc |-> "None", ret |-> r.ret,
                notes |-> r.notes]
    /\ UNCHANGED <<now, clientVars, alertVars, monitor_log>>

RecordSuccess ==
    LET r == record_success(circuit) IN
    /\ circuit' = r.b
    /\ obs' = ObsSuccess(obs, circuit)
    /\ last' = [op |-> "record_success", who |-> "test", exc |-> "None", ret |-> FALSE,
                notes |-> r.notes]
    /\ UNCHANGED <<now, clientVars, alertVars, monitor_log>>

RecordFailure ==
    \E exception \in Exceptions :
        LET r == record_failure(circuit, exception, now) IN
        /\ circuit' = r.b
        /\ obs' = ObsTrip(ObsFailure(obs, circuit, exception, now), circuit, r)
        /\ last' = [op |-> "record_failure", who |-> "test", exc |-> exception, ret |-> FALSE,
                    notes |-> r.notes]
        /\ UNCHANGED <<now, clientVars, alertVars, monitor_log>>

Tick ==
    /\ now + TickStep <= MaxTime
    /\ now' = now + TickStep
    /\ last' = [op |-> "tick", who |-> "none", exc |-> "None",
                ret |-> FALSE, notes |-> <<>>]
    /\ UNCHANGED <<cbVars, clientVars, alertVars, monitor_log>>

NextCB == AllowRequest \/ RecordSuccess \/ RecordFailure \/ Tick

SpecCB == InitCB /\ [][NextCB]_vars

(***************************************************************************)
(* RolloutClient.call_api and call_mcp_tool.  The client runs on one       *)
(* asyncio event loop: a call runs without interruption from one point     *)
(* where it waits (the HTTP request, a back-off sleep) to the next, and     *)
(* taking the breaker's free lock is not such a point.                     *)
(***************************************************************************)
MAX_RETRIES == 5

ClientTickStep == 60
MaxClientTime == 180

\* what an attempt of call_api can meet; once the service has healed every
\* admitted call succeeds and none is abandoned
Responses ==
    IF service = "healthy"
    THEN {"200"}
    ELSE {"200", "401", "429", "500", "400", "400_not_json", "ClientError"}

KnownTools == {"sync_tour_data"}

Tools == KnownTools \cup {"unknown_tool"}

Note(op, who, exc, ret, notes) ==
    [op |-> op, who |-> who, exc |-> exc, ret |-> ret, notes |-> notes]

InitClient ==
    /\ circuit = test_circuit
    /\ obs = ObsInit
    /\ now = 0
    /\ last = NoOp
    /\ ClientIdle
    /\ AlertIdle

\* what a step of call_api leaves in `last.notes`: how call_api was entered
\* ("call" by the caller, "retry" after a back-off sleep, "refresh" after
\* refresh_jwt(), "none" if the step enters nothing), the number of
\* record_failure() calls made and the breaker's notifications
ApiNote(entry, recorded, tracked) ==
    [entry |-> entry, recorded |-> recorded, tracked |-> tracked]

\* call_api(endpoint, method, data, retry_count) up to its request: the
\* breaker is asked, and a refusal raises RolloutCircuitOpenError
ApiEnter(c, retry_count, entry) ==
    LET r == allow_request(rollout_client.api_circuit, now) IN
    /\ ~rollout_client.api_circuit.locked
    /\ rollout_client' = [rollout_client EXCEPT !.api_circuit = r.b]
    /\ IF r.ret
       THEN /\ callers' = [callers EXCEPT ![c] =
                             [pc |-> "api_request", retry_count |-> retry_count,
                              tool_name |-> "none"]]
            /\ UNCHANGED api_monitor
       ELSE /\ ~api_monitor.locked
            /\ callers' = [callers EXCEPT ![c] = IdleCall]
            /\ api_monitor' = ApiMetricsContext_exit(api_monitor)
    /\ last' = Note("call_api", c,
                    IF r.ret THEN "None" ELSE "RolloutCircuitOpenError",
                    r.ret, ApiNote(entry, 0, r.notes))

\* the call ends with `exception` after record_failure(exception)
ApiFail(c, exception) ==
    LET r == record_failure(rollout_client.api_circuit, exception, now) IN
    /\ ~rollout_client.api_circuit.locked
    /\ ~api_monitor.locked
    /\ rollout_client' = [rollout_client EXCEPT !.api_circuit = r.b]
    /\ callers' = [callers EXCEPT ![c] = IdleCall]
    /\ api_monitor' = ApiMetricsContext_exit(api_monitor)
    /\ last' = Note("call_api", c, exception, FALSE, ApiNote("none", 1, r.notes))

\* an end of the call that tells the breaker of a failure of the service
ApiRaise_counted(c, exception) ==
    LET r == record_failure(rollout_client.api_circuit, "RolloutError", now) IN
    /\ callers' = [callers EXCEPT ![c] = IdleCall]
    /\ rollout_client' = [rollout_client EXCEPT !.api_circuit = r.b]
    /\ last' = Note("call_api", c, exception, FALSE, ApiNote("none", 0, r.notes))
    /\ UNCHANGED api_monitor

\* the call ends with `exception`, the breaker is not told
ApiRaise(c, exception) ==
    /\ ~api_monitor.locked
    /\ callers' = [callers EXCEPT ![c] = IdleCall]
    /\ api_monitor' = ApiMetricsContext_exit(api_monitor)
    /\ last' = Note("call_api", c, exception, FALSE, ApiNote("none", 0, <<>>))
    /\ UNCHANGED rollout_client

\* a back-off that tells the breaker of the failed attempt
ApiBackoff_recording(c) ==
    LET r == record_failure(rollout_client.api_circuit, "RolloutServerError", now) IN
    /\ rollout_client' = [rollout_client EXCEPT !.api_circuit = r.b]
    /\ callers' = [callers EXCEPT ![c].pc = "api_sleep",
                                  ![c].retry_count = @ + 1]
    /\ last' = Note("call_api", c, "None", FALSE, ApiNote("none", 1, r.notes))
    /\ UNCHANGED api_monitor

\* a back-off that does not count the retry
ApiBackoff_uncounted(c) ==
    /\ callers' = [callers EXCEPT ![c].pc = "api_sleep"]
    /\ last' = Note("call_api", c, "None", FALSE, ApiNote("none", 0, <<>>))
    /\ UNCHANGED <<rollout_client, api_monitor>>

\* the call backs off and will enter call_api again
ApiBackoff(c) ==
    /\ callers' = [callers EXCEPT ![c].pc = "api_sleep",
                                  ![c].retry_count = @ + 1]
    /\ last' = Note("call_api", c, "None", FALSE, ApiNote("none", 0, <<>>))
    /\ UNCHANGED <<rollout_client, api_monitor>>

CallApi(c) ==
    /\ callers[c].pc = "idle"
    /\ ApiEnter(c, 0, "call")
    /\ UNCHANGED <<cbVars, now, service, alertVars, monitor_log>>

ApiRetry(c) ==
    /\ callers[c].pc = "api_sleep"
    /\ ApiEnter(c, callers[c].retry_count, "retry")
    /\ UNCHANGED <<cbVars, now, service, alertVars, monitor_log>>

\* what call_api does when the request ends with `status`
ApiStatus(c, status) ==
    LET retry_count == callers[c].retry_count IN
    /\ callers[c].pc = "api_request"
    /\ CASE status = "200" ->
              LET r == record_success(rollout_client.api_circuit) IN
              /\ ~rollout_client.api_circuit.locked
              /\ ~api_monitor.locked
              /\ rollout_client' = [rollout_client EXCEPT !.api_circuit = r.b]
              /\ callers' = [callers EXCEPT ![c] = IdleCall]
              /\ api_monitor' = ApiMetricsContext_exit(api_monitor)
              /\ last' = Note("call_api", c, "None", TRUE, ApiNote("none", 0, r.notes))
         [] status = "401" ->
              IF retry_count = 0
              THEN ApiEnter(c, 1, "refresh")
              ELSE ApiFail(c, "RolloutAuthError")
         [] status = "429" ->
              IF retry_count < MAX_RETRIES
              THEN ApiBackoff(c)
              ELSE ApiRaise(c, "RolloutRateLimitError")
         [] status = "500" ->
              IF retry_count < MAX_RETRIES
              THEN ApiBackoff(c)
              ELSE ApiFail(c, "RolloutServerError")
         [] status = "400" -> ApiFail(c, "RolloutError")
         [] status = "400_not_json" -> ApiRaise(c, "RolloutError")
         [] status = "ClientError" ->
              IF retry_count < MAX_RETRIES
              THEN ApiBackoff(c)
              ELSE ApiFail(c, "RolloutError")
    /\ UNCHANGED <<cbVars, now, service, alertVars, monitor_log>>

ApiResponse(c) == \E status \in Responses : ApiStatus(c, status)

\* the caller's task is cancelled while the call waits
ApiCancel(c) ==
    /\ service = "degraded"
    /\ callers[c].pc \in {"api_request", "api_sleep"}
    /\ ApiRaise(c, "CancelledError")
    /\ UNCHANGED <<cbVars, now, service, alertVars, monitor_log>>

\* call_mcp_tool up to its first wait
CallMcpTool(c) ==
    /\ callers[c].pc = "idle"
    /\ ~rollout_client.mcp_circuit.locked
    /\ \E tool_name \in Tools :
        LET r == allow_request(rollout_client.mcp_circuit, now) IN
        IF ~r.ret
        THEN LET f == record_failure(r.b, "RolloutCircuitOpenError", now) IN
             /\ ~r.b.locked /\ ~api_monitor.locked
             /\ rollout_client' = [rollout_client EXCEPT !.mcp_circuit = f.b]
             /\ callers' = [callers EXCEPT ![c] = IdleCall]
             /\ api_monitor' = ApiMetricsContext_exit(api_monitor)
             /\ last' = Note("call_mcp_tool", c, "RolloutCircuitOpenError", FALSE,
                             r.notes \o f.notes)
        ELSE IF tool_name \in KnownTools
        THEN LET g == record_success(r.b) IN
             /\ ~r.b.locked /\ ~api_monitor.locked
             /\ rollout_client' = [rollout_client EXCEPT !.mcp_circuit = g.b]
             /\ callers' = [callers EXCEPT ![c] = IdleCall]
             /\ api_monitor' = ApiMetricsContext_exit(api_monitor)
             /\ last' = Note("call_mcp_tool", c, "None", TRUE, r.notes \o g.notes)
        ELSE /\ rollout_client' = [rollout_client EXCEPT !.mcp_circuit = r.b]
             /\ callers' = [callers EXCEPT ![c] =
                              [pc |-> "mcp_sleep", retry_count |-> 0,
                               tool_name |-> tool_name]]
             /\ last' = Note("call_mcp_tool", c, "None", TRUE, r.notes)
             /\ UNCHANGED api_monitor
    /\ UNCHANGED <<cbVars, now, service, alertVars, monitor_log>>

\* the next attempt of the loop, after the back-off sleep; only a tool the
\* placeholder does not know gets here, and it raises ValueError again
McpRetry(c) ==
    /\ callers[c].pc = "mcp_sleep"
    /\ LET attempt == callers[c].retry_count + 1 IN
       IF attempt < MAX_RETRIES
       THEN /\ callers' = [callers EXCEPT ![c].retry_count = attempt]
            /\ last' = Note("call_mcp_tool", c, "None", FALSE, <<>>)
            /\ UNCHANGED <<rollout_client, api_monitor>>
       ELSE LET f == record_failure(rollout_client.mcp_circuit, "ValueError", now)
                g == record_failure(f.b, "ValueError", now) IN
            /\ ~rollout_client.mcp_circuit.locked
            /\ ~f.b.locked
            /\ ~api_monitor.locked
            /\ rollout_client' = [rollout_client EXCEPT !.mcp_circuit = g.b]
            /\ callers' = [callers EXCEPT ![c] = IdleCall]
            /\ api_monitor' = ApiMetricsContext_exit(api_monitor)
            /\ last' = Note("call_mcp_tool", c, "ValueError", FALSE,
                            f.notes \o g.notes)
    /\ UNCHANGED <<cbVars, now, service, alertVars, monitor_log>>

McpCancel(c) ==
    /\ callers[c].pc = "mcp_sleep"
    /\ ~api_monitor.locked
    /\ callers' = [callers EXCEPT ![c] = IdleCall]
    /\ api_monitor' = ApiMetricsContext_exit(api_monitor)
    /\ last' = Note("call_mcp_tool", c, "CancelledError", FALSE, <<>>)
    /\ UNCHANGED <<cbVars, now, service, rollout_client, alertVars, monitor_log>>

\* the Rollout service heals
Heal ==
    /\ service = "degraded"
    /\ service' = "healthy"
    /\ last' = Note("heal", "none", "None", FALSE, <<>>)
    /\ UNCHANGED <<cbVars, now, rollout_client, callers, api_monitor, alertVars, monitor_log>>

\* Time passes.  The clock is kept in a window: at MaxClientTime the stored
\* time stamps move back instead, which keeps every difference
\* now - last_failure_time the breakers compute with a recovery_timeout (a
\* stamp that reached 0 is MaxClientTime old, more than either timeout).
Earlier(b, d) ==
    [b EXCEPT !.last_failure_time = IF @ > d THEN @ - d ELSE 0]

ClientTick ==
    /\ IF now + ClientTickStep <= MaxClientTime
       THEN /\ now' = now + ClientTickStep
            /\ UNCHANGED rollout_client
       ELSE /\ now' = now
            /\ rollout_client' =
                 [api_circuit |-> Earlier(rollout_client.api_circuit, ClientTickStep),
                  mcp_circuit |-> Earlier(rollout_client.mcp_circuit, ClientTickStep)]
    /\ last' = Note("tick", "none", "None", FALSE, <<>>)
    /\ UNCHANGED <<cbVars, callers, service, api_monitor, alertVars, monitor_log>>

NextClient ==
    \/ \E c \in Callers :
          \/ CallApi(c) \/ ApiRetry(c) \/ ApiResponse(c) \/ ApiCancel(c)
          \/ CallMcpTool(c) \/ McpRetry(c) \/ McpCancel(c)
    \/ Heal
    \/ ClientTick

SpecClient == InitClient /\ [][NextClient]_vars

\* call_api alone, with callers that keep calling, calls that come to an
\* end and a clock that keeps running
NextApi ==
    \/ \E c \in Callers :
          CallApi(c) \/ ApiRetry(c) \/ ApiResponse(c) \/ ApiCancel(c)
    \/ Heal
    \/ ClientTick

FairApi ==
    /\ WF_vars(ClientTick)
    /\ \A c \in Callers :
          WF_vars(CallApi(c)) /\ WF_vars(ApiRetry(c)) /\ WF_vars(ApiResponse(c))

SpecApi == InitClient /\ [][NextApi]_vars

SpecApiLive == InitClient /\ [][NextApi]_vars /\ FairApi

(***************************************************************************)
(* AlertManager.record_operation_failure and update_config, as the alert   *)
(* test scripts drive them.  utcnow is in minutes.                         *)
(***************************************************************************)
MaxMinutes == 5
MaxFailures == 4

\* mutant of is_in_cooldown: nothing is ever in cooldown
is_in_cooldown_never(entity_id, alert_type) ==
    FALSE

\* mutant of is_in_cooldown: the cooldown starts a minute after the alert
is_in_cooldown_later(entity_id, alert_type) ==
    /\ alerted_entities[entity_id][alert_type] # NoAlert
    /\ utcnow - alerted_entities[entity_id][alert_type] > 0
    /\ utcnow - alerted_entities[entity_id][alert_type]
          < configs[alert_type].cooldown_minutes

is_in_cooldown(entity_id, alert_type) ==
    /\ alerted_entities[entity_id][alert_type] # NoAlert
    /\ utcnow - alerted_entities[entity_id][alert_type]
          < configs[alert_type].cooldown_minutes

\* mutant of recent_failures: the window is not applied
recent_failures_all(entity_id, operation_type, config, stamps) ==
    stamps

\* mutant of recent_failures: the list is the one read before the append
recent_failures_stale(entity_id, operation_type, config, stamps) ==
    LET window_start == utcnow - config.window_minutes
        InWindow(ts) == ts >= window_start
    IN SelectSeq(failure_timestamps[entity_id][operation_type], InWindow)

\* the timestamps _check_threshold_exceeded keeps
recent_failures(entity_id, operation_type, config, stamps) ==
    LET window_start == utcnow - config.window_minutes
        InWindow(ts) == ts >= window_start
    IN SelectSeq(stamps, InWindow)

\* a handler raises when the delivery it attempts fails; the log handler
\* attempts none and the email handler returns early without recipients
Raises(method, recipients, failing) ==
    /\ method \in failing
    /\ method # "LOG"
    /\ method = "EMAIL" => recipients # <<>>

FailingDeliveries == SUBSET {"EMAIL", "WEBHOOK"}

\* the configured methods whose handler raises
RaisedMethods(config, failing) ==
    {config.methods[i] : i \in {j \in 1..Len(config.methods) :
        Raises(config.methods[j], config.recipients, failing)}}

\* mutant of send_alerts: the first handler that raises ends the loop and
\* its error leaves the function
RECURSIVE send_alerts_until_error(_, _, _)
send_alerts_until_error(config, failing, i) ==
    IF i > Len(config.methods)
    THEN [attempted |-> <<>>, success |-> TRUE, error |-> "None"]
    ELSE LET method == config.methods[i] IN
         IF Raises(method, config.recipients, failing)
         THEN [attempted |-> <<method>>, success |-> FALSE, error |-> method]
         ELSE LET rest == send_alerts_until_error(config, failing, i + 1) IN
              [rest EXCEPT !.attempted = <<method>> \o @]

\* `for method in config.methods:` from the i-th method on: the handlers
\* called, whether none raised, and the error that leaves the loop
RECURSIVE send_alerts(_, _, _)
send_alerts(config, failing, i) ==
    IF i > Len(config.methods)
    THEN [attempted |-> <<>>, success |-> TRUE, error |-> "None"]
    ELSE LET method == config.methods[i]
             rest == send_alerts(config, failing, i + 1)
         IN [attempted |-> <<method>> \o rest.attempted,
             success |-> rest.success
                           /\ ~Raises(method, config.recipients, failing),
             error |-> rest.error]

\* mutant of generate_and_send_alert: the entity is marked as alerted
\* after the deliveries, when none failed
generate_and_send_alert_stamp_on_success(alert_type, entity_id, failing) ==
    LET sent == send_alerts(configs[alert_type], failing, 1) IN
    [alerted_entities |->
        IF sent.success
        THEN [alerted_entities EXCEPT ![entity_id][alert_type] = utcnow]
        ELSE alerted_entities,
     trace |-> sent.attempted \o <<"stamp">>,
     raised |-> RaisedMethods(configs[alert_type], failing),
     error |-> sent.error,
     ret |-> sent.success]

\* _generate_and_send_alert: _alerted_entities after it, what it did in
\* order, the handlers that raised, the error that leaves it and the value
\* it returns
generate_and_send_alert(alert_type, entity_id, failing) ==
    LET sent == send_alerts(configs[alert_type], failing, 1) IN
    [alerted_entities |->
        [alerted_entities EXCEPT ![entity_id][alert_type] = utcnow],
     trace |-> <<"stamp">> \o sent.attempted,
     raised |-> RaisedMethods(configs[alert_type], failing),
     error |-> sent.error,
     ret |-> sent.success]

TotalFailures ==
    LET Sum[S \in SUBSET (Entities \X Operations)] ==
            IF S = {} THEN 0
            ELSE LET k == CHOOSE k \in S : TRUE
                 IN failure_counts[k[1]][k[2]] + Sum[S \ {k}]
    IN Sum[Entities \X Operations]

InitAlert ==
    /\ circuit = test_circuit
    /\ obs = ObsInit
    /\ now = 0
    /\ last = NoOp
    /\ ClientIdle
    /\ AlertIdle

AlertNote(entity_id, operation_type, key, alert_type, generated, sent) ==
    Note("record_operation_failure", entity_id, key, sent.ret,
         [operation_type |-> operation_type, alert_type |-> alert_type,
          generated |-> generated, trace |-> sent.trace,
          raised |-> sent.raised, error |-> sent.error])

\* what a call that generates no alert has done and returns
NothingSent == [trace |-> <<>>, raised |-> {}, error |-> "None", ret |-> FALSE]

\* mutant of is_enabled: the flag is not looked at
is_enabled_always(config) ==
    TRUE

\* `if not config or not config.enabled: return False`; every kind the
\* classification returns has a configuration from construction on
is_enabled(config) ==
    config.enabled

\* record_operation_failure(entity_id, entity_type, operation_type, error,
\* operation_id, details), the error being ErrorTexts[key]
record_operation_failure(entity_id, operation_type, key) ==
    LET alert_type == AlertTypeOf[key]
        config == configs[alert_type]
        stamps == Append(failure_timestamps[entity_id][operation_type], utcnow)
        recent == recent_failures(entity_id, operation_type, config, stamps)
        checked == is_enabled(config) /\ ~is_in_cooldown(entity_id, alert_type)
        generated == checked /\ Len(recent) >= config.threshold
    IN
    /\ failure_counts' =
         [failure_counts EXCEPT ![entity_id][operation_type] = @ + 1]
    /\ failure_log' =
         [failure_log EXCEPT ![entity_id][operation_type] = Append(@, utcnow)]
    /\ failure_timestamps' =
         [failure_timestamps EXCEPT ![entity_id][operation_type] =
             IF checked THEN recent ELSE stamps]
    /\ IF generated
       THEN \E failing \in FailingDeliveries :
              LET sent == generate_and_send_alert(alert_type, entity_id, failing)
              IN /\ alerted_entities' = sent.alerted_entities
                 /\ last' = AlertNote(entity_id, operation_type, key,
                                      alert_type, TRUE, sent)
       ELSE /\ alerted_entities' = alerted_entities
            /\ last' = AlertNote(entity_id, operation_type, key, alert_type,
                                 FALSE, NothingSent)
    /\ UNCHANGED <<cbVars, now, clientVars, monitor_log, configs, utcnow>>

RecordOperationFailure(entity_id, operation_type, key) ==
    /\ TotalFailures < MaxFailures
    /\ record_operation_failure(entity_id, operation_type, key)
    /\ UNCHANGED failure_kinds

\* update_config that stores the configuration without looking at its type
UpdateConfig_unchecked(alert_type, config) ==
    /\ configs' = [configs EXCEPT ![alert_type] = config]
    /\ last' = Note("update_config", alert_type, "None", TRUE, <<>>)
    /\ UNCHANGED <<cbVars, now, clientVars, monitor_log, failure_counts,
                   failure_timestamps, alerted_entities, failure_log, utcnow,
                   failure_kinds>>

UpdateConfig(alert_type, config) ==
    /\ configs' = IF config.type # alert_type
                  THEN configs
                  ELSE [configs EXCEPT ![alert_type] = config]
    /\ last' = Note("update_config", alert_type, "None",
                    config.type = alert_type, <<>>)
    /\ UNCHANGED <<cbVars, now, clientVars, monitor_log, failure_counts,
                   failure_timestamps, alerted_entities, failure_log, utcnow,
                   failure_kinds>>

\* a minute passes
AlertTick ==
    /\ utcnow < MaxMinutes
    /\ utcnow' = utcnow + 1
    /\ last' = Note("tick", "none", "None", FALSE, <<>>)
    /\ UNCHANGED <<cbVars, now, clientVars, monitor_log, configs, failure_counts,
                   failure_timestamps, alerted_entities, failure_log,
                   failure_kinds>>

NextAlert ==
    \/ \E entity_id \in Entities, operation_type \in Operations,
          key \in DOMAIN ErrorTexts :
          RecordOperationFailure(entity_id, operation_type, key)
    \/ \E alert_type \in {"REPEATED_SYNC_FAILURE", "CIRCUIT_BREAKER_OPEN"},
          config \in NewConfigs :
          UpdateConfig(alert_type, config)
    \/ AlertTick

SpecAlert == InitAlert /\ [][NextAlert]_vars

(***************************************************************************)
(* The alert manager as scripts/test_alerts.py sets it up, with failures   *)
(* arriving over a few minutes and an operator changing the configuration  *)
(* of REPEATED_SYNC_FAILURE through PUT /alert-configs.                    *)
(***************************************************************************)
MaxQuickMinutes == 6
MaxQuickFailures == 5

InitQuickAlerts ==
    /\ circuit = test_circuit
    /\ obs = ObsInit
    /\ now = 0
    /\ last = NoOp
    /\ ClientIdle
    /\ configs = quick_configs
    /\ failure_counts = [e \in Entities |-> [o \in Operations |-> 0]]
    /\ failure_timestamps = [e \in Entities |-> [o \in Operations |-> <<>>]]
    /\ alerted_entities = [e \in Entities |-> [t \in AlertType |-> NoAlert]]
    /\ failure_log = [e \in Entities |-> [o \in Operations |-> <<>>]]
    /\ failure_kinds = [e \in Entities |-> [o \in Operations |-> <<>>]]
    /\ utcnow = 0

QuickFailure(entity_id, operation_type, key) ==
    /\ TotalFailures < MaxQuickFailures
    /\ record_operation_failure(entity_id, operation_type, key)
    /\ UNCHANGED failure_kinds

QuickTick ==
    /\ utcnow < MaxQuickMinutes
    /\ utcnow' = utcnow + 1
    /\ last' = Note("tick", "none", "None", FALSE, <<>>)
    /\ UNCHANGED <<cbVars, now, clientVars, monitor_log, configs, failure_counts,
                   failure_timestamps, alerted_entities, failure_log,
                   failure_kinds>>

\* the texts of the failures the script generates for its first entity
QuickKeys == {"timeout", "rate_limit"}

NextQuickAlerts ==
    \/ \E entity_id \in Entities, operation_type \in Operations,
          key \in QuickKeys :
          QuickFailure(entity_id, operation_type, key)
    \/ \E config \in OperatorConfigs :
          UpdateConfig("REPEATED_SYNC_FAILURE", config)
    \/ QuickTick

SpecQuickAlerts == InitQuickAlerts /\ [][NextQuickAlerts]_vars

(***************************************************************************)
(* Properties of a breaker driven directly (SpecCB).                       *)
(***************************************************************************)
Counted(exception) == exception \notin circuit.excluded_exceptions

\* C1: the state changes only along CLOSED->OPEN (in record_failure, with
\* failures at the threshold), OPEN->HALF_OPEN (in allow_request, after
\* recovery_timeout), HALF_OPEN->CLOSED (in record_success, after
\* half_open_max_calls successes of the episode) and HALF_OPEN->OPEN (in
\* record_failure).
C1_OnlyDefinedEdges ==
    [][circuit'.state # circuit.state =>
        \/ /\ circuit.state = CLOSED /\ circuit'.state = OPEN
           /\ last'.op = "record_failure"
           /\ circuit'.failures >= circuit.failure_threshold
        \/ /\ circuit.state = OPEN /\ circuit'.state = HALF_OPEN
           /\ last'.op = "allow_request"
           /\ now - circuit.last_failure_time >= circuit.recovery_timeout
        \/ /\ circuit.state = HALF_OPEN /\ circuit'.state = CLOSED
           /\ last'.op = "record_success"
           /\ obs'.successes >= circuit.half_open_max_calls
        \/ /\ circuit.state = HALF_OPEN /\ circuit'.state = OPEN
           /\ last'.op = "record_failure"]_vars

\* the breaker closed again after it tripped, was probed, reopened and was
\* probed a second time: all four edges were taken
C1_Witness ==
    /\ circuit.state = CLOSED
    /\ obs.via = "reopen"
    /\ obs.successes >= circuit.half_open_max_calls
    /\ last.op = "record_success"

\* C2: in one HALF_OPEN episode allow_request() admits at most
\* half_open_max_calls calls, the call admitted by the transitioning
\* allow_request() included.
C2_AtMostMaxTrialCalls ==
    circuit.state = HALF_OPEN => obs.granted <= circuit.half_open_max_calls

\* C4: from a fresh breaker, the failure_threshold-th consecutive counted
\* failure opens it; while OPEN, allow_request() returns false and changes
\* nothing before recovery_timeout has elapsed since the last counted
\* failure, and at or after it returns true and enters HALF_OPEN with both
\* half-open counters at 0; the half_open_max_calls-th record_success()
\* then closes it with failures = 0.
C4_TripProbeRecover ==
    [][/\ ( /\ last'.op = "record_failure" /\ circuit.state = CLOSED
            /\ obs'.streak # obs.streak
            /\ obs'.streak = circuit.failure_threshold )
          => circuit'.state = OPEN
       /\ ( /\ last'.op = "allow_request" /\ circuit.state = OPEN
            /\ now - obs.counted_at < circuit.recovery_timeout )
          => (~last'.ret /\ circuit' = circuit)
       /\ ( /\ last'.op = "allow_request" /\ circuit.state = OPEN
            /\ now - obs.counted_at >= circuit.recovery_timeout )
          => /\ last'.ret
             /\ circuit'.state = HALF_OPEN
             /\ circuit'.successful_half_open_calls = 0
             /\ circuit'.half_open_calls_in_progress = 0
       /\ ( /\ last'.op = "record_success" /\ circuit.state = HALF_OPEN
            /\ obs'.successes = circuit.half_open_max_calls )
          => (circuit'.state = CLOSED /\ circuit'.failures = 0)]_vars

\* the scenario threshold 3, timeout 10 s, 2 half-open calls ran to its end
C4_Witness ==
    /\ circuit.name = "test-circuit"
    /\ circuit.state = CLOSED
    /\ circuit.failures = 0
    /\ obs.via = "trip"
    /\ obs.successes = 2
    /\ last.op = "record_success"
    /\ last.notes # <<>>

\* C5: record_failure() with an excluded error changes no field of the
\* breaker, in any state, and sends no notification.
C5_ExcludedIsNoOp ==
    [][(last'.op = "record_failure" /\ ~Counted(last'.exc))
        => (circuit' = circuit /\ last'.notes = <<>>)]_vars

\* an excluded error was recorded while the breaker was HALF_OPEN
C5_Witness ==
    /\ last.op = "record_failure"
    /\ ~Counted(last.exc)
    /\ circuit.state = HALF_OPEN
    /\ circuit.half_open_calls_in_progress > 0

\* C7: a counted failure in HALF_OPEN opens the breaker at once, zeroes
\* both half-open counters and stamps last_failure_time, and allow_request()
\* then returns false until recovery_timeout has elapsed since that failure.
C7_HalfOpenFailureReopens ==
    [][/\ ( /\ last'.op = "record_failure" /\ Counted(last'.exc)
            /\ circuit.state = HALF_OPEN )
          => /\ circuit'.state = OPEN
             /\ circuit'.successful_half_open_calls = 0
             /\ circuit'.half_open_calls_in_progress = 0
             /\ circuit'.last_failure_time = now
       /\ ( /\ last'.op = "allow_request" /\ circuit.state = OPEN
            /\ obs.via = "reopen"
            /\ now - obs.counted_at < circuit.recovery_timeout )
          => (~last'.ret /\ circuit'.state = OPEN)]_vars

\* a request was refused some time after the breaker reopened
C7_Witness ==
    /\ circuit.state = OPEN
    /\ obs.via = "reopen"
    /\ last.op = "allow_request"
    /\ ~last.ret
    /\ now > obs.counted_at

\* C8: failures is 0 after every transition into CLOSED and after every
\* record_success() in CLOSED, so CLOSED->OPEN needs failure_threshold
\* counted failures with no record_success() between them.
C8_FailuresResetOnClosed ==
    [][/\ (circuit.state # CLOSED /\ circuit'.state = CLOSED)
          => circuit'.failures = 0
       /\ (last'.op = "record_success" /\ circuit.state = CLOSED)
          => circuit'.failures = 0
       /\ (circuit.state = CLOSED /\ circuit'.state = OPEN)
          => obs'.streak >= circuit.failure_threshold]_vars

\* the breaker tripped a second time, after a half-open recovery
C8_Witness ==
    /\ circuit.state = OPEN
    /\ obs.via = "trip"
    /\ obs.successes >= circuit.half_open_max_calls
    /\ obs.streak = circuit.failure_threshold
    /\ last.op = "record_failure"

(***************************************************************************)
(* Properties of the Rollout client (SpecClient, SpecApiLive).             *)
(***************************************************************************)
\* C3: once the service has healed (every admitted call succeeds and
\* records its success, callers keep calling, time keeps running) the
\* rollout-api breaker eventually becomes CLOSED.
C3_RecoversOnceHealed ==
    (service = "healthy") ~> (rollout_client.api_circuit.state = CLOSED)

\* C6: a call refused by allow_request() ends with RolloutCircuitOpenError
\* and leaves both breakers exactly as they were, in call_api and in
\* call_mcp_tool.
C6_RefusalNotCounted ==
    [][last'.exc = "RolloutCircuitOpenError"
        => rollout_client' = rollout_client]_vars

\* the call of c waits for its request or sleeps between two attempts
Waiting(c) == callers[c].pc \in {"api_request", "api_sleep", "mcp_sleep"}

LocksFree ==
    /\ ~rollout_client.api_circuit.locked
    /\ ~rollout_client.mcp_circuit.locked
    /\ ~api_monitor.locked

\* C17: while a call waits for its request or sleeps between two attempts
\* no lock of a breaker or of the monitor is held, and what another caller
\* issues can proceed: allow_request() of a new call or of its retry,
\* record_success(), record_failure() and record_api_call() of a call
\* whose response arrives.
C17_NoLockHeldWhileWaiting ==
    \A c \in Callers :
       Waiting(c) =>
         /\ LocksFree
         /\ \A d \in Callers \ {c} :
              /\ callers[d].pc = "idle"
                   => ENABLED CallApi(d) /\ ENABLED CallMcpTool(d)
              /\ callers[d].pc = "api_sleep" => ENABLED ApiRetry(d)
              /\ callers[d].pc = "api_request"
                   => ENABLED ApiStatus(d, "200") /\ ENABLED ApiStatus(d, "400")

\* c1 sleeps between two attempts, c2 waits in call_mcp_tool, and the last
\* step was a call of c2 that recorded its failure meanwhile
C17_Witness ==
    /\ callers["c1"].pc = "api_sleep"
    /\ callers["c2"].pc = "idle"
    /\ last.op = "call_api"
    /\ last.who = "c2"
    /\ last.notes.recorded = 1
    /\ LocksFree

\* the attempt of c that waits for its response was admitted in the last
\* step and is the first of its call, or the one after the back-off of the
\* first: the call has met no authentication error so far
NoAuthErrorYet(c) ==
    /\ callers[c].pc = "api_request"
    /\ last.op = "call_api"
    /\ last.who = c
    /\ last.ret
    /\ \/ last.notes.entry = "call"
       \/ last.notes.entry = "retry" /\ callers[c].retry_count = 1

\* C18: the first authentication error (401/403) of a call makes call_api
\* refresh the token and enter again, without a record_failure(), however
\* many retries the call has made for other errors.
C18_FirstAuthErrorRetried ==
    [][\A c \in Callers :
          (NoAuthErrorYet(c) /\ ApiStatus(c, "401")) =>
            /\ last'.notes.entry = "refresh"
            /\ last'.notes.recorded = 0]_vars

\* C19: a response with another status than 200/201, 401/403, 429 and 5xx
\* ends call_api at once with RolloutError, after exactly one
\* record_failure() on the rollout-api breaker, whatever its body is.
C19_ClientErrorRecordedOnce ==
    [][\A c \in Callers, status \in {"400", "400_not_json"} :
          ApiStatus(c, status) =>
            /\ callers'[c].pc = "idle"
            /\ last'.exc = "RolloutError"
            /\ last'.notes.recorded = 1]_vars

\* C20: on a 5xx response or a network error call_api backs off and enters
\* again with retry_count + 1 while retry_count < MAX_RETRIES, without any
\* record_failure(); at retry_count = MAX_RETRIES it ends with exactly one
\* record_failure().
C20_RetriedUntilExhausted ==
    [][\A c \in Callers :
          /\ \A status \in {"500", "ClientError"} :
               ApiStatus(c, status) =>
                 IF callers[c].retry_count < MAX_RETRIES
                 THEN /\ callers'[c].pc = "api_sleep"
                      /\ callers'[c].retry_count = callers[c].retry_count + 1
                      /\ last'.notes.recorded = 0
                      /\ rollout_client' = rollout_client
                 ELSE /\ callers'[c].pc = "idle"
                      /\ last'.notes.recorded = 1
                      /\ last'.exc = IF status = "500"
                                     THEN "RolloutServerError"
                                     ELSE "RolloutError"
          /\ ApiRetry(c) =>
               /\ last'.notes.entry = "retry"
               /\ last'.ret <=> callers'[c].pc = "api_request"
               /\ last'.ret =>
                    callers'[c].retry_count = callers[c].retry_count]_vars

\* a call has ended with RolloutServerError after MAX_RETRIES retries and
\* one record_failure()
C20_Witness ==
    /\ last.op = "call_api"
    /\ last.exc = "RolloutServerError"
    /\ last.notes.recorded = 1
    /\ callers[last.who].pc = "idle"

\* C21: a 429 response leaves the rollout-api breaker as it is, while the
\* call backs off for its retry (retry_count < MAX_RETRIES) and when the
\* call ends with RolloutRateLimitError (retry_count = MAX_RETRIES); no
\* call makes more than MAX_RETRIES retries.
C21_RateLimitNotCounted ==
    [][\A c \in Callers :
          /\ callers[c].retry_count <= MAX_RETRIES
          /\ ApiStatus(c, "429") =>
               /\ rollout_client' = rollout_client
               /\ last'.notes.recorded = 0
               /\ IF callers[c].retry_count < MAX_RETRIES
                  THEN /\ callers'[c].pc = "api_sleep"
                       /\ callers'[c].retry_count = callers[c].retry_count + 1
                  ELSE /\ callers'[c].pc = "idle"
                       /\ last'.exc = "RolloutRateLimitError"]_vars

\* a call has ended with RolloutRateLimitError after MAX_RETRIES retries
\* while the breaker, which counted two failures of other calls, is CLOSED
C21_Witness ==
    /\ last.op = "call_api"
    /\ last.exc = "RolloutRateLimitError"
    /\ callers[last.who].pc = "idle"
    /\ rollout_client.api_circuit.state = CLOSED
    /\ rollout_client.api_circuit.failures = 2

\* an attempt of the call of c begins: call_api is entered and admitted
Attempt(c) ==
    /\ last'.op = "call_api"
    /\ last'.who = c
    /\ last'.notes.entry # "none"
    /\ callers'[c].pc = "api_request"

\* C22: every call of call_api comes to an end, each further attempt runs
\* with a larger retry_count, which never exceeds MAX_RETRIES (so that a
\* call makes at most MAX_RETRIES + 1 attempts, all error classes counted
\* together), and an attempt begins only when the call has none in flight,
\* unless the one in flight has just been answered with 401.
C22_CallTerminates ==
    /\ [](\A c \in Callers : callers[c].retry_count <= MAX_RETRIES)
    /\ [][\A c \in Callers :
            Attempt(c) =>
              CASE last'.notes.entry = "call" ->
                     callers[c].pc = "idle" /\ callers'[c].retry_count = 0
                [] last'.notes.entry = "retry" ->
                     /\ callers[c].pc = "api_sleep"
                     /\ callers'[c].retry_count = callers[c].retry_count
                     /\ callers'[c].retry_count >= 1
                [] last'.notes.entry = "refresh" ->
                     /\ callers[c].pc = "api_request"
                     /\ callers[c].retry_count = 0
                     /\ callers'[c].retry_count = 1]_vars
    /\ [][\A c \in Callers :
            (callers[c].pc = "api_request" /\ callers'[c].pc = "api_sleep")
              => callers'[c].retry_count = callers[c].retry_count + 1]_vars
    /\ \A c \in Callers :
          (callers[c].pc # "idle") ~> (callers[c].pc = "idle")

\* the sixth attempt of a call is in flight
C22_Witness ==
    \E c \in Callers :
       /\ callers[c].pc = "api_request"
       /\ callers[c].retry_count = MAX_RETRIES
       /\ last.op = "call_api"
       /\ last.who = c
       /\ last.notes.entry = "retry"

(***************************************************************************)
(* Properties of the alert manager (SpecAlert).                            *)
(***************************************************************************)
\* a step of record_operation_failure for the entity
Recorded(entity_id) ==
    /\ last'.op = "record_operation_failure"
    /\ last'.who = entity_id
    /\ failure_counts'[entity_id] # failure_counts[entity_id]

\* C9: whenever record_operation_failure generates an alert (kind enabled,
\* not in cooldown, threshold reached in the window) it returns true, also
\* when configured delivery methods fail.
C9_GeneratedAlertReturnsTrue ==
    [][\A e \in Entities :
          Recorded(e) /\ last'.notes.generated => last'.ret]_vars

\* REPEATED_SYNC_FAILURE configured with threshold 3, window 60, cooldown 5
ScenarioConfigured ==
    /\ configs["REPEATED_SYNC_FAILURE"].threshold = 3
    /\ configs["REPEATED_SYNC_FAILURE"].window_minutes = 60
    /\ configs["REPEATED_SYNC_FAILURE"].cooldown_minutes = 5

\* the third failure of (entity, operation), "API Connection Timeout", no
\* REPEATED_SYNC_FAILURE alert having been raised for the entity yet
ThirdTimeout(entity_id, operation_type) ==
    /\ ScenarioConfigured
    /\ Recorded(entity_id)
    /\ last'.exc = "timeout"
    /\ last'.notes.operation_type = operation_type
    /\ failure_counts[entity_id][operation_type] = 2
    /\ Len(failure_timestamps[entity_id][operation_type]) = 2
    /\ alerted_entities[entity_id]["REPEATED_SYNC_FAILURE"] = NoAlert

\* a failure of the entity recorded less than 5 minutes after its
\* REPEATED_SYNC_FAILURE alert
WithinCooldown(entity_id) ==
    /\ ScenarioConfigured
    /\ Recorded(entity_id)
    /\ alerted_entities[entity_id]["REPEATED_SYNC_FAILURE"] # NoAlert
    /\ utcnow - alerted_entities[entity_id]["REPEATED_SYNC_FAILURE"] < 5

LastKind == last'.notes.alert_type

\* REPEATED_SYNC_FAILURE enabled with threshold 2, window 5, cooldown 1
QuickConfigured ==
    /\ configs["REPEATED_SYNC_FAILURE"].enabled
    /\ configs["REPEATED_SYNC_FAILURE"].threshold = 2
    /\ configs["REPEATED_SYNC_FAILURE"].window_minutes = 5
    /\ configs["REPEATED_SYNC_FAILURE"].cooldown_minutes = 1

\* every failure of (entity, operation) so far was recorded this minute
AllThisMinute(entity_id, operation_type) ==
    \A i \in DOMAIN failure_log[entity_id][operation_type] :
        failure_log[entity_id][operation_type][i] = utcnow

\* C11: once an alert of a kind was generated for an entity, no alert of
\* that kind is generated for it before cooldown_minutes have elapsed; with
\* threshold 2, window 5, cooldown 1, of the failures of one entity and
\* operation recorded in the same minute the first generates no alert, the
\* second generates the alert and every later one returns false.
C11_OneAlertPerCooldown ==
    [][\A e \in Entities :
          Recorded(e) =>
            /\ (/\ alerted_entities[e][LastKind] # NoAlert
                /\ utcnow - alerted_entities[e][LastKind]
                      < configs[LastKind].cooldown_minutes)
                 => /\ ~last'.notes.generated
                    /\ ~last'.ret
                    /\ alerted_entities' = alerted_entities
            /\ \A o \in Operations :
                 (/\ QuickConfigured
                  /\ LastKind = "REPEATED_SYNC_FAILURE"
                  /\ last'.notes.operation_type = o
                  /\ AllThisMinute(e, o))
                 => /\ Len(failure_log[e][o]) = 0 => ~last'.notes.generated
                    /\ (/\ Len(failure_log[e][o]) >= 1
                        /\ alerted_entities[e][LastKind] = NoAlert)
                         => last'.notes.generated
                    /\ alerted_entities[e][LastKind] = utcnow
                         => ~last'.notes.generated /\ ~last'.ret]_vars

\* the fifth failure of tour_1/sync within one minute, classified as
\* REPEATED_SYNC_FAILURE, has returned false after the alert of that minute
C11_Witness ==
    /\ last.op = "record_operation_failure"
    /\ last.who = "tour_1"
    /\ last.notes.alert_type = "REPEATED_SYNC_FAILURE"
    /\ ~last.ret
    /\ QuickConfigured
    /\ Len(failure_log["tour_1"]["sync"]) = 5
    /\ AllThisMinute("tour_1", "sync")
    /\ alerted_entities["tour_1"]["REPEATED_SYNC_FAILURE"] = utcnow
    /\ alerted_entities["tour_1"]["RATE_LIMIT_CRITICAL"] = NoAlert

\* the failures of (entity, operation) recorded so far, the last included,
\* that are not older than the window of the kind
InWindow(entity_id, operation_type, alert_type) ==
    {i \in DOMAIN failure_log'[entity_id][operation_type] :
        failure_log'[entity_id][operation_type][i]
            >= utcnow - configs[alert_type].window_minutes}

\* C12: record_operation_failure returns true (generates an alert) only
\* if at least threshold failures of the (entity, operation), the current
\* one included, lie in the last window_minutes; a single failure never
\* alerts when the threshold is 2 or more, and neither does the second of
\* two failures that are further apart than the window.
C12_AlertNeedsThresholdInWindow ==
    [][\A e \in Entities, o \in Operations :
          (Recorded(e) /\ last'.notes.operation_type = o) =>
            /\ (last'.ret \/ last'.notes.generated)
                 => Cardinality(InWindow(e, o, LastKind))
                       >= configs[LastKind].threshold
            /\ (configs[LastKind].threshold >= 2 /\ Len(failure_log[e][o]) = 0)
                 => ~last'.ret /\ ~last'.notes.generated
            /\ (/\ configs[LastKind].threshold >= 2
                /\ Len(failure_log[e][o]) = 1
                /\ utcnow - failure_log[e][o][1]
                      > configs[LastKind].window_minutes)
                 => ~last'.ret /\ ~last'.notes.generated]_vars

\* two failures of tour_1/sync six minutes apart under the 5-minute window
\* of an enabled threshold-2 kind that never alerted: no alert
C12_Witness ==
    /\ last.op = "record_operation_failure"
    /\ last.notes.alert_type = "REPEATED_SYNC_FAILURE"
    /\ QuickConfigured
    /\ alerted_entities["tour_1"]["REPEATED_SYNC_FAILURE"] = NoAlert
    /\ Len(failure_log["tour_1"]["sync"]) = 2
    /\ failure_log["tour_1"]["sync"][2] = utcnow
    /\ utcnow - failure_log["tour_1"]["sync"][1] > 5
    /\ failure_timestamps["tour_1"]["sync"] = <<utcnow>>
    /\ ~last.ret
    /\ ~last.notes.generated

\* the delivery methods in what _generate_and_send_alert did
Attempted(trace) ==
    LET IsMethod(x) == x \in AlertMethod IN SelectSeq(trace, IsMethod)

\* C13: when an alert is generated every method of config.methods is
\* attempted exactly once, in order, whether or not an earlier one raised,
\* and no delivery error leaves record_operation_failure.
C13_EveryMethodAttempted ==
    [][\A e \in Entities :
          Recorded(e) =>
            /\ last'.notes.error = "None"
            /\ last'.notes.generated
                 => Attempted(last'.notes.trace) = configs[LastKind].methods]_vars

\* an alert whose first method, the webhook, raised and whose second, the
\* email, was attempted all the same
C13_Witness ==
    /\ last.op = "record_operation_failure"
    /\ last.notes.generated
    /\ "WEBHOOK" \in last.notes.raised
    /\ Attempted(last.notes.trace) = <<"WEBHOOK", "EMAIL">>
    /\ last.notes.error = "None"

\* C14: when an alert is generated the (entity, kind) is stamped in
\* _alerted_entities before the first delivery method is attempted and
\* stays stamped whatever the deliveries do, so that the pair is in
\* cooldown from then on.
C14_StampedBeforeDelivery ==
    [][\A e \in Entities :
          (Recorded(e) /\ last'.notes.generated) =>
            /\ Head(last'.notes.trace) = "stamp"
            /\ alerted_entities'[e][LastKind] = utcnow
            /\ configs[LastKind].cooldown_minutes > 0
                 => /\ alerted_entities'[e][LastKind] # NoAlert
                    /\ utcnow' - alerted_entities'[e][LastKind]
                          < configs'[LastKind].cooldown_minutes]_vars

\* an alert of which every delivery failed, the entity being stamped
C14_Witness ==
    /\ last.op = "record_operation_failure"
    /\ last.notes.generated
    /\ ~last.ret
    /\ last.notes.raised = {"WEBHOOK", "EMAIL"}
    /\ Attempted(last.notes.trace) = <<"WEBHOOK", "EMAIL">>
    /\ alerted_entities[last.who][last.notes.alert_type] = utcnow

\* C15: if the configuration of the classified kind has enabled = false
\* (none is ever missing), record_operation_failure returns false, builds
\* no event, calls no delivery method and leaves _alerted_entities as it
\* is, while the time stamp is appended to the (entity, operation) list.
C15_DisabledKindOnlyRecords ==
    [][\A e \in Entities, o \in Operations :
          (/\ Recorded(e)
           /\ last'.notes.operation_type = o
           /\ ~configs[LastKind].enabled) =>
            /\ ~last'.ret
            /\ ~last'.notes.generated
            /\ last'.notes.trace = <<>>
            /\ alerted_entities' = alerted_entities
            /\ failure_timestamps'[e][o]
                 = Append(failure_timestamps[e][o], utcnow)
            /\ failure_counts'[e][o] = failure_counts[e][o] + 1]_vars

\* the muted kind has reached its threshold and its window holds the
\* failures, without any alert
C15_Witness ==
    /\ last.op = "record_operation_failure"
    /\ last.notes.alert_type = "REPEATED_SYNC_FAILURE"
    /\ configs["REPEATED_SYNC_FAILURE"] = muted_config
    /\ Len(failure_timestamps["tour_1"]["sync"]) >= 2
    /\ AllThisMinute("tour_1", "sync")
    /\ alerted_entities["tour_1"]["REPEATED_SYNC_FAILURE"] = NoAlert
    /\ ~last.ret

\* the lock AlertManager.__init__ creates for its state: there is none
alert_manager_lock == "None"

\* what concurrent calls of record_operation_failure must add up to: an
\* alert of a kind is generated for an entity only outside the cooldown of
\* the pair, and the time stamp of every call is in the list afterwards
\* together with the stamps the window of the kind still covers
AtMostOneAlertNoStampLost ==
    \A e \in Entities, o \in Operations :
       (Recorded(e) /\ last'.notes.operation_type = o) =>
         /\ last'.notes.generated
              => \/ alerted_entities[e][LastKind] = NoAlert
                 \/ utcnow - alerted_entities[e][LastKind]
                       >= configs[LastKind].cooldown_minutes
         /\ failure_counts'[e][o] = Len(failure_log'[e][o])
         /\ Len(failure_timestamps'[e][o]) >= 1
         /\ failure_timestamps'[e][o][Len(failure_timestamps'[e][o])] = utcnow
         /\ Len(failure_timestamps'[e][o]) >=
              1 + Cardinality({i \in DOMAIN failure_timestamps[e][o] :
                     failure_timestamps[e][o][i]
                        >= utcnow - configs[LastKind].window_minutes})

MaxMonitorCalls == 4

\* call_api's ApiMetricsContext(endpoint) and the name that
\* _handle_rate_limiting reports rate limits under
Endpoints == {"/connectors/", "rollout-api"}

ResponseTimes == {1, 2}

\* X-RateLimit-Remaining, X-RateLimit-Limit, X-RateLimit-Reset
Remaining == {0, 7}

RateLimit == 100

RATE_LIMIT_RESET_DELAY == 60

InitMonitor ==
    /\ circuit = test_circuit
    /\ obs = ObsInit
    /\ now = 0
    /\ last = NoOp
    /\ ClientIdle
    /\ AlertIdle

\* which operation of the monitor ran last, and for which key
MonitorNote(op, key) == Note(op, key, "None", FALSE, <<>>)

RecordApiCall(endpoint, success, response_time, retries) ==
    /\ monitor_log.calls < MaxMonitorCalls
    /\ ~api_monitor.locked
    /\ api_monitor' = record_api_call(api_monitor, endpoint, success,
                                      response_time, retries, now)
    /\ monitor_log' =
           [monitor_log EXCEPT
               !.calls = @ + 1,
               !.times = IF success
                         THEN SetItem(@, endpoint,
                                  Append(Get(@, endpoint, <<>>), response_time))
                         ELSE @]
    /\ now' = now + 1
    /\ last' = MonitorNote("record_api_call", endpoint)
    /\ UNCHANGED <<cbVars, rollout_client, callers, service, alertVars>>

RecordRateLimit(endpoint, remaining) ==
    /\ monitor_log.calls < MaxMonitorCalls
    /\ ~api_monitor.locked
    /\ api_monitor' = record_rate_limit(api_monitor, endpoint, RateLimit,
                                        remaining, now + RATE_LIMIT_RESET_DELAY, now)
    /\ monitor_log' = [monitor_log EXCEPT !.calls = @ + 1]
    /\ now' = now + 1
    /\ last' = MonitorNote("record_rate_limit", endpoint)
    /\ UNCHANGED <<cbVars, rollout_client, callers, service, alertVars>>

GetApiStats(endpoint) ==
    LET r == get_api_stats(api_monitor, endpoint) IN
    /\ ~api_monitor.locked
    /\ api_monitor' = r.monitor
    /\ last' = MonitorNote("get_api_stats", endpoint)
    /\ UNCHANGED <<cbVars, now, rollout_client, callers, service, alertVars,
                   monitor_log>>

GetRateLimits(endpoint) ==
    LET r == get_rate_limits(api_monitor, endpoint) IN
    /\ ~api_monitor.locked
    /\ api_monitor' = r.monitor
    /\ last' = MonitorNote("get_rate_limits", endpoint)
    /\ UNCHANGED <<cbVars, now, rollout_client, callers, service, alertVars,
                   monitor_log>>

GetCircuitStats(name) ==
    LET r == get_circuit_stats(api_monitor, name) IN
    /\ ~api_monitor.locked
    /\ api_monitor' = r.monitor
    /\ last' = MonitorNote("get_circuit_stats", name)
    /\ UNCHANGED <<cbVars, now, rollout_client, callers, service, alertVars,
                   monitor_log>>

\* reset_stats(); the record of what was added starts afresh with it
ResetStats ==
    /\ ~api_monitor.locked
    /\ api_monitor' = reset_stats(api_monitor)
    /\ monitor_log' = [monitor_log EXCEPT !.times = EmptyMap]
    /\ last' = MonitorNote("reset_stats", "None")
    /\ UNCHANGED <<cbVars, now, rollout_client, callers, service, alertVars>>

\* track_circuit_breaker(name, state, failure_count) called directly, as
\* scripts/test_monitoring_standalone.py does
RecordCircuitState(name, state, failure_count) ==
    /\ monitor_log.calls < MaxMonitorCalls
    /\ ~api_monitor.locked
    /\ api_monitor' = record_circuit_state(api_monitor, name, state,
                                           failure_count, now)
    /\ monitor_log' = [monitor_log EXCEPT !.calls = @ + 1]
    /\ now' = now + 1
    /\ last' = MonitorNote("record_circuit_state", name)
    /\ UNCHANGED <<cbVars, rollout_client, callers, service, alertVars>>

\* what call_api's ApiMetricsContext reports: a success, a failure, or an
\* attempt that was retried (set_retries(retry_count + 1))
CallOutcomes == {<<TRUE, 0>>, <<FALSE, 0>>, <<FALSE, 2>>}

NextMonitor ==
    \/ \E endpoint \in Endpoints, outcome \in CallOutcomes,
          response_time \in ResponseTimes :
          RecordApiCall(endpoint, outcome[1], response_time, outcome[2])
    \/ \E endpoint \in Endpoints, remaining \in Remaining :
          RecordRateLimit(endpoint, remaining)

SpecMonitor == InitMonitor /\ [][NextMonitor]_vars

\* the statistics recorded, read and reset
NextQueries ==
    \/ \E success \in BOOLEAN : RecordApiCall("/connectors/", success, 1, 0)
    \/ RecordRateLimit("rollout-api", 0)
    \/ \E state \in {OPEN, CLOSED} : RecordCircuitState("test", state, 5)
    \/ \E endpoint \in Endpoints \cup {"None"} : GetApiStats(endpoint)
    \/ \E endpoint \in Endpoints \cup {"None"} : GetRateLimits(endpoint)
    \/ \E name \in {"test", "None"} : GetCircuitStats(name)
    \/ ResetStats

SpecQueries == InitMonitor /\ [][NextQueries]_vars

(***************************************************************************)
(* A breaker and the monitor together: the breaker of                      *)
(* scripts/test_circuit_breaker.py is driven as in SpecCB, and each        *)
(* notification it makes is recorded by the monitor within the same call.  *)
(***************************************************************************)
\* time.time() advances in steps of TickStep seconds, up to MaxTrackedTime
MaxTrackedTime == 40

\* api_monitor.record_circuit_state for each notification, in order
RECURSIVE Notify(_, _, _)
Notify(monitor, notes, t) ==
    IF notes = <<>> THEN monitor
    ELSE Notify(record_circuit_state(monitor, Head(notes).name,
                                     Head(notes).state,
                                     Head(notes).failure_count, t),
                Tail(notes), t)

TrackedAllow ==
    LET r == allow_request(circuit, now) IN
    /\ ~circuit.locked /\ ~api_monitor.locked
    /\ circuit' = r.b
    /\ api_monitor' = Notify(api_monitor, r.notes, now)
    /\ last' = Note("allow_request", "test", "None", r.ret, r.notes)
    /\ UNCHANGED <<obs, now, rollout_client, callers, service, alertVars,
                   monitor_log>>

TrackedSuccess ==
    LET r == record_success(circuit) IN
    /\ ~circuit.locked /\ ~api_monitor.locked
    /\ circuit' = r.b
    /\ api_monitor' = Notify(api_monitor, r.notes, now)
    /\ last' = Note("record_success", "test", "None", FALSE, r.notes)
    /\ UNCHANGED <<obs, now, rollout_client, callers, service, alertVars,
                   monitor_log>>

TrackedFailure ==
    \E exception \in {"None", "RolloutServerError"} :
        LET r == record_failure(circuit, exception, now) IN
        /\ ~circuit.locked /\ ~api_monitor.locked
        /\ circuit' = r.b
        /\ api_monitor' = Notify(api_monitor, r.notes, now)
        /\ last' = Note("record_failure", "test", exception, FALSE, r.notes)
        /\ UNCHANGED <<obs, now, rollout_client, callers, service, alertVars,
                       monitor_log>>

TrackedTick ==
    /\ now + TickStep <= MaxTrackedTime
    /\ now' = now + TickStep
    /\ last' = Note("tick", "none", "None", FALSE, <<>>)
    /\ UNCHANGED <<cbVars, clientVars, alertVars, monitor_log>>

NextTracked == TrackedAllow \/ TrackedSuccess \/ TrackedFailure \/ TrackedTick

SpecTracked == InitMonitor /\ [][NextTracked]_vars

(***************************************************************************)
(* _determine_alert_type on its own, applied to error messages made of     *)
(* one or two phrases that hold the words it looks for in either case,     *)
(* alone, together and across the joint of two phrases.                    *)
(***************************************************************************)
Phrases ==
    <<<<"C", "i", "r", "c", "u", "i", "t", " ", "B", "r", "e", "a", "k",
        "e", "r", " ", "O", "P", "E", "N">>,
      <<"C", "i", "r", "c", "u", "i", "t">>,
      <<"r", "e", "o", "p", "e", "n", "e", "d">>,
      <<"R", "a", "t", "e", " ", "L", "i", "m", "i", "t">>,
      <<"r", "a", "t", "e">>,
      <<"l", "i", "m", "i", "t", " ", "e", "x", "c", "e", "e", "d", "e",
        "d">>,
      <<"U", "n", "a", "u", "t", "h", "o", "r", "i", "z", "e", "d">>,
      <<"T", "o", "k", "e", "n", " ", "e", "x", "p", "i", "r", "e", "d">>,
      <<"i", "n", "v", "a", "l", "i", "d", " ", "C", "R", "E", "D", "E",
        "N", "T", "I", "A", "L", "S">>,
      <<"T", "i", "m", "e", "o", "u", "t">>>>

MixedTexts ==
    {Phrases[i] : i \in DOMAIN Phrases}
        \cup {Phrases[i] \o <<" ">> \o Phrases[j] : i, j \in DOMAIN Phrases}

Classify(error) ==
    /\ last' = Note("_determine_alert_type", "none", "None", FALSE,
                    [error |-> error,
                     alert_type |-> determine_alert_type(error)])
    /\ UNCHANGED <<cbVars, now, clientVars, alertVars, monitor_log>>

NextClassify == \E error \in MixedTexts : Classify(error)

SpecClassify == InitAlert /\ [][NextClassify]_vars

(***************************************************************************)
(* The alert manager with its configurations updated for every kind, with  *)
(* configurations of a matching and of another type, between failures      *)
(* recorded within one minute.                                             *)
(***************************************************************************)
SentConfigs == NewConfigs \cup {quick_circuit_breaker_config}

NextConfigs ==
    \/ \E entity_id \in Entities, operation_type \in Operations,
          key \in DOMAIN ErrorTexts :
          RecordOperationFailure(entity_id, operation_type, key)
    \/ \E alert_type \in AlertType, config \in SentConfigs :
          UpdateConfig(alert_type, config)

SpecConfigs == InitAlert /\ [][NextConfigs]_vars

(***************************************************************************)
(* RolloutClient._get_retry_delay on its own.  random.uniform(0, delay)    *)
(* may return any value from 0 to delay; the model takes the whole seconds *)
(* among them.                                                             *)
(***************************************************************************)
BASE_BACKOFF == 1
MAX_BACKOFF == 32

\* call_api asks for the delays of retry_count 0 .. MAX_RETRIES - 1; the
\* model asks up to MaxRetryCount, where the cap has been reached
MaxRetryCount == 6

\* delay + jitter instead of a jitter below delay
get_retry_delay_added(retry_count) ==
    LET exponential == BASE_BACKOFF * (2 ^ retry_count)
        delay == IF MAX_BACKOFF < exponential THEN MAX_BACKOFF ELSE exponential
    IN  {delay + jitter : jitter \in 0..delay}

\* the values _get_retry_delay(retry_count) may return
get_retry_delay(retry_count) ==
    LET exponential == BASE_BACKOFF * (2 ^ retry_count)
        delay == IF MAX_BACKOFF < exponential THEN MAX_BACKOFF ELSE exponential
    IN  0..delay

RetryDelay(retry_count) ==
    \E jitter \in get_retry_delay(retry_count) :
        /\ last' = Note("_get_retry_delay", "none", "None", FALSE,
                        [retry_count |-> retry_count, delay |-> jitter])
        /\ UNCHANGED <<cbVars, now, clientVars, alertVars, monitor_log>>

NextBackoff == \E retry_count \in 0..MaxRetryCount : RetryDelay(retry_count)

SpecBackoff == InitClient /\ [][NextBackoff]_vars

(***************************************************************************)
(* The alert manager with the configurations of its construction, over a   *)
(* time long enough for their windows of 30 and 60 minutes to pass, the    *)
(* failures being timeouts (REPEATED_SYNC_FAILURE: threshold 3, window 60) *)
(* and rate limits (RATE_LIMIT_CRITICAL: threshold 2, window 30).          *)
(***************************************************************************)
\* datetime.utcnow() advances in steps of WindowTickStep minutes, up to
\* MaxWindowMinutes, and at most MaxWindowFailures failures are recorded
WindowTickStep == 10
MaxWindowMinutes == 40
MaxWindowFailures == 4

WindowKeys == {"timeout", "rate_limit"}

WindowFailure(entity_id, operation_type, key) ==
    /\ TotalFailures < MaxWindowFailures
    /\ record_operation_failure(entity_id, operation_type, key)
    /\ failure_kinds' =
           [failure_kinds EXCEPT
               ![entity_id][operation_type] = Append(@, AlertTypeOf[key])]

WindowTick ==
    /\ utcnow + WindowTickStep <= MaxWindowMinutes
    /\ utcnow' = utcnow + WindowTickStep
    /\ last' = Note("tick", "none", "None", FALSE, <<>>)
    /\ UNCHANGED <<cbVars, now, clientVars, monitor_log, configs, failure_counts,
                   failure_timestamps, alerted_entities, failure_log,
                   failure_kinds>>

NextWindows ==
    \/ \E entity_id \in Entities, operation_type \in Operations,
          key \in WindowKeys :
          WindowFailure(entity_id, operation_type, key)
    \/ WindowTick

SpecWindows == InitAlert /\ [][NextWindows]_vars

(***************************************************************************)
(* CircuitBreaker.execute() run by concurrent callers: allow_request(),    *)
(* then the awaited function, during which other callers run, then         *)
(* record_success() or record_failure().  A caller remembers the state in  *)
(* which the breaker admitted it; when the breaker enters HALF_OPEN anew,  *)
(* the calls still running were admitted before the episode.               *)
(***************************************************************************)
ExecuteIdle ==
    [pc |-> "idle", retry_count |-> 0, tool_name |-> "none", admitted |-> "none"]

InitExecute ==
    /\ circuit = test_circuit
    /\ now = 0
    /\ obs = ObsInit
    /\ last = NoOp
    /\ rollout_client = [api_circuit |-> api_circuit, mcp_circuit |-> mcp_circuit]
    /\ callers = [c \in Callers |-> ExecuteIdle]
    /\ service = "degraded"
    /\ api_monitor = ApiMonitor
    /\ monitor_log = MonitorLog
    /\ AlertIdle

\* the calls admitted before the HALF_OPEN episode that r begins
Outdated(calls, b, r) ==
    IF b.state = OPEN /\ r.b.state = HALF_OPEN
    THEN [c \in Callers |->
             IF calls[c].pc = "func" THEN [calls[c] EXCEPT !.admitted = "earlier"]
             ELSE calls[c]]
    ELSE calls

ExecuteEnter(c) ==
    LET r == allow_request(circuit, now) IN
    /\ callers[c].pc = "idle"
    /\ circuit' = r.b
    /\ obs' = ObsAllow(obs, circuit, r)
    /\ callers' = IF r.ret
                  THEN [Outdated(callers, circuit, r) EXCEPT
                           ![c] = [@ EXCEPT !.pc = "func", !.admitted = r.b.state]]
                  ELSE callers
    /\ last' = Note("execute", c, IF r.ret THEN "None" ELSE "CircuitBreakerOpenError",
                    r.ret, r.notes)
    /\ UNCHANGED <<now, rollout_client, service, api_monitor, alertVars, monitor_log>>

ExecuteReturn(c) ==
    LET r == record_success(circuit) IN
    /\ callers[c].pc = "func"
    /\ circuit' = r.b
    /\ obs' = ObsSuccess(obs, circuit)
    /\ callers' = [callers EXCEPT ![c] = ExecuteIdle]
    /\ last' = Note("record_success", c, "None", TRUE, r.notes)
    /\ UNCHANGED <<now, rollout_client, service, api_monitor, alertVars, monitor_log>>

ExecuteRaise(c) ==
    \E exception \in Exceptions \ {"None"} :
        LET r == record_failure(circuit, exception, now) IN
        /\ callers[c].pc = "func"
        /\ circuit' = r.b
        /\ obs' = ObsTrip(ObsFailure(obs, circuit, exception, now), circuit, r)
        /\ callers' = [callers EXCEPT ![c] = ExecuteIdle]
        /\ last' = Note("record_failure", c, exception, FALSE, r.notes)
        /\ UNCHANGED <<now, rollout_client, service, api_monitor, alertVars, monitor_log>>

NextExecute ==
    \/ \E c \in Callers : ExecuteEnter(c) \/ ExecuteReturn(c) \/ ExecuteRaise(c)
    \/ Tick

SpecExecute == InitExecute /\ [][NextExecute]_vars

(***************************************************************************)
(* call_api with its metrics: every call_api frame, the one of the caller  *)
(* and the one of each retry, runs inside its own                          *)
(* `with ApiMetricsContext(endpoint) as metrics:`, and a frame that        *)
(* retries returns the result of the frame it calls.  A caller keeps its   *)
(* open contexts, the innermost last; they are left, innermost first, when *)
(* the innermost frame returns or raises.  Responses carry no rate-limit   *)
(* headers.                                                                *)
(***************************************************************************)
\* at most MaxMeteredRecords outcomes are recorded before the last call
\* starts, and the clock stops at MaxMeteredTime
MaxMeteredRecords == 2
MaxMeteredTime == 1

MeteredEndpoint == "/connectors/"

MeteredStatuses == {"200", "401", "429", "500", "400", "400_not_json", "ClientError"}

\* ApiMetricsContext.__init__ and __enter__ at time t
ApiMetricsContext(t) == [start_time |-> t, success |-> FALSE, retries |-> 0]

MeteredIdle ==
    [pc |-> "idle", retry_count |-> 0, tool_name |-> "none", contexts |-> <<>>]

\* metrics.set_success and metrics.set_retries of the innermost frame
set_success(contexts, success) ==
    [contexts EXCEPT ![Len(contexts)].success = success]

set_retries(contexts, retries) ==
    [contexts EXCEPT ![Len(contexts)].retries = retries]

\* ApiMetricsContext.__exit__ of every open context at time t
RECURSIVE exit_contexts(_, _, _, _)
exit_contexts(monitor, contexts, endpoint, t) ==
    IF contexts = <<>>
    THEN monitor
    ELSE LET metrics == contexts[Len(contexts)] IN
         exit_contexts(
             record_api_call(monitor, endpoint, metrics.success,
                             t - metrics.start_time, metrics.retries, t),
             SubSeq(contexts, 1, Len(contexts) - 1), endpoint, t)

\* the outcomes recorded for the endpoint so far
Outcomes(monitor, endpoint) ==
    LET stats == Get(monitor.api_stats, endpoint, ApiCallStats(endpoint))
    IN  stats.success_count + stats.error_count

InitMetered ==
    /\ circuit = test_circuit
    /\ obs = ObsInit
    /\ now = 0
    /\ last = NoOp
    /\ rollout_client = [api_circuit |-> api_circuit, mcp_circuit |-> mcp_circuit]
    /\ callers = [c \in Callers |-> MeteredIdle]
    /\ service = "degraded"
    /\ api_monitor = ApiMonitor
    /\ monitor_log = MonitorLog
    /\ AlertIdle

\* the innermost frame returns or raises: every open context is left
MeteredLeave(c, contexts, breaker, exception, notes) ==
    /\ ~api_monitor.locked
    /\ rollout_client' = [rollout_client EXCEPT !.api_circuit = breaker]
    /\ callers' = [callers EXCEPT ![c] = MeteredIdle]
    /\ api_monitor' = exit_contexts(api_monitor, contexts, MeteredEndpoint, now)
    /\ last' = Note("call_api", c, exception, exception = "None", notes)

\* a frame call_api(endpoint, method, data, retry_count) up to its request
MeteredEnter(c, retry_count, outer) ==
    LET r == allow_request(rollout_client.api_circuit, now)
        contexts == Append(outer, ApiMetricsContext(now))
    IN  /\ ~rollout_client.api_circuit.locked
        /\ IF r.ret
           THEN /\ rollout_client' = [rollout_client EXCEPT !.api_circuit = r.b]
                /\ callers' = [callers EXCEPT ![c] =
                                 [pc |-> "api_request", retry_count |-> retry_count,
                                  tool_name |-> "none", contexts |-> contexts]]
                /\ last' = Note("call_api", c, "None", TRUE, r.notes)
                /\ UNCHANGED api_monitor
           ELSE MeteredLeave(c, set_success(contexts, FALSE), r.b,
                             "RolloutCircuitOpenError", r.notes)

\* the caller calls call_api(endpoint)
MeteredCall(c) ==
    /\ callers[c].pc = "idle"
    /\ Outcomes(api_monitor, MeteredEndpoint) < MaxMeteredRecords
    /\ MeteredEnter(c, 0, <<>>)
    /\ UNCHANGED <<cbVars, now, service, alertVars, monitor_log>>

\* the frame raises after record_failure(error)
MeteredFail(c, exception) ==
    LET r == record_failure(rollout_client.api_circuit, exception, now) IN
    /\ ~rollout_client.api_circuit.locked
    /\ MeteredLeave(c, set_success(callers[c].contexts, FALSE), r.b,
                    exception, r.notes)

\* the frame raises without telling the breaker
MeteredRaise(c, exception) ==
    MeteredLeave(c, set_success(callers[c].contexts, FALSE),
                 rollout_client.api_circuit, exception, <<>>)

\* the frame sleeps before it retries
MeteredBackoff(c) ==
    /\ callers' = [callers EXCEPT ![c].pc = "api_sleep"]
    /\ last' = Note("call_api", c, "None", FALSE, <<>>)
    /\ UNCHANGED <<rollout_client, api_monitor>>

\* the response of the request arrives
MeteredStatus(c, status) ==
    LET retry_count == callers[c].retry_count IN
    /\ callers[c].pc = "api_request"
    /\ CASE status = "200" ->
              LET r == record_success(rollout_client.api_circuit) IN
              /\ ~rollout_client.api_circuit.locked
              /\ MeteredLeave(c, set_success(callers[c].contexts, TRUE), r.b,
                              "None", r.notes)
         [] status = "401" ->
              IF retry_count = 0
              THEN MeteredEnter(c, 1, callers[c].contexts)
              ELSE MeteredFail(c, "RolloutAuthError")
         [] status = "429" ->
              IF retry_count < MAX_RETRIES
              THEN MeteredBackoff(c)
              ELSE MeteredRaise(c, "RolloutRateLimitError")
         [] status = "500" ->
              IF retry_count < MAX_RETRIES
              THEN MeteredBackoff(c)
              ELSE MeteredFail(c, "RolloutServerError")
         [] status = "400" -> MeteredFail(c, "RolloutError")
         [] status = "400_not_json" -> MeteredRaise(c, "RolloutError")
         [] status = "ClientError" ->
              IF retry_count < MAX_RETRIES
              THEN MeteredBackoff(c)
              ELSE MeteredFail(c, "RolloutError")
    /\ UNCHANGED <<cbVars, now, service, alertVars, monitor_log>>

MeteredResponse(c) ==
    \E status \in MeteredStatuses : MeteredStatus(c, status)

\* after the sleep: metrics.set_retries(retry_count + 1), then the next
\* frame
MeteredRetry(c) ==
    /\ callers[c].pc = "api_sleep"
    /\ MeteredEnter(c, callers[c].retry_count + 1,
                    set_retries(callers[c].contexts, callers[c].retry_count + 1))
    /\ UNCHANGED <<cbVars, now, service, alertVars, monitor_log>>

MeteredTick ==
    /\ now < MaxMeteredTime
    /\ now' = now + 1
    /\ last' = Note("tick", "none", "None", FALSE, <<>>)
    /\ UNCHANGED <<cbVars, clientVars, alertVars, monitor_log>>

NextMetered ==
    \/ \E c \in Callers : MeteredCall(c) \/ MeteredResponse(c) \/ MeteredRetry(c)
    \/ MeteredTick

SpecMetered == InitMetered /\ [][NextMetered]_vars

(***************************************************************************)
(* Properties of the monitor (SpecMonitor).                                *)
(***************************************************************************)
RECURSIVE SumOf(_)
SumOf(seq) == IF seq = <<>> THEN 0 ELSE Head(seq) + SumOf(Tail(seq))

\* the last n elements of seq, in their order
MostRecent(seq, n) == SubSeq(seq, Len(seq) - n + 1, Len(seq))

\* C23: the response-time window of an endpoint holds at most WindowCap
\* values; they are the most recently recorded ones, in the order in which
\* they were recorded; total_response_time is their sum; and once WindowCap
\* or more values have been recorded the window holds exactly WindowCap.
C23_BoundedWindow ==
    \A endpoint \in DOMAIN api_monitor.api_stats :
        LET stats == api_monitor.api_stats[endpoint]
            recorded == Get(monitor_log.times, endpoint, <<>>)
            kept == IF Len(recorded) < WindowCap THEN Len(recorded)
                    ELSE WindowCap
        IN  /\ Len(stats.response_times) <= WindowCap
            /\ stats.response_times = MostRecent(recorded, kept)
            /\ stats.total_response_time = SumOf(stats.response_times)
            /\ Len(recorded) >= WindowCap
                   => Len(stats.response_times) = WindowCap

\* two values more than the window holds were recorded for one endpoint,
\* and the values evicted differ from the values kept
C23_Witness ==
    \E endpoint \in DOMAIN api_monitor.api_stats :
        LET recorded == Get(monitor_log.times, endpoint, <<>>) IN
        /\ Len(recorded) = WindowCap + 2
        /\ SumOf(recorded) # 2 * SumOf(api_monitor.api_stats[endpoint].response_times)
        /\ Head(recorded) # recorded[Len(recorded)]

\* C24: each record_api_call(endpoint, success, response_time, retries)
\* adds one to exactly one of success_count and error_count, adds retries
\* to retry_count, stamps last_called and appends response_time to the
\* endpoint's bounded window, whether the call succeeded or failed.
C24_CallRecorded ==
    [][\A endpoint \in Endpoints, outcome \in CallOutcomes,
          response_time \in ResponseTimes :
          RecordApiCall(endpoint, outcome[1], response_time, outcome[2]) =>
              LET old == Get(api_monitor.api_stats, endpoint,
                             ApiCallStats(endpoint))
                  new == api_monitor.api_stats'[endpoint]
                  appended == Append(old.response_times, response_time)
              IN  /\ new.success_count + new.error_count
                         = old.success_count + old.error_count + 1
                  /\ new.success_count
                         = old.success_count + (IF outcome[1] THEN 1 ELSE 0)
                  /\ new.retry_count = old.retry_count + outcome[2]
                  /\ new.last_called = now
                  /\ new.response_times =
                         IF Len(appended) > WindowCap THEN Tail(appended)
                         ELSE appended]_vars

\* the rate-limit hits counted for an endpoint
RateLimitHits(monitor, endpoint) ==
    Get(monitor.api_stats, endpoint, ApiCallStats(endpoint)).rate_limit_hits

\* C25: record_rate_limit(endpoint, limit, remaining, reset_time) overwrites
\* the endpoint's rate-limit record with the values given, and adds one to
\* the endpoint's rate-limit hits when remaining is 0, whether or not a
\* call was recorded for the endpoint before; with remaining > 0 the hits
\* stay as they are.
C25_RateLimitRecorded ==
    [][\A endpoint \in Endpoints, remaining \in Remaining :
          RecordRateLimit(endpoint, remaining) =>
              /\ api_monitor.rate_limits'[endpoint] =
                     [endpoint |-> endpoint,
                      limit |-> RateLimit,
                      remaining |-> remaining,
                      reset_time |-> now + RATE_LIMIT_RESET_DELAY,
                      last_updated |-> now]
              /\ RateLimitHits(api_monitor', endpoint) =
                     RateLimitHits(api_monitor, endpoint)
                         + (IF remaining = 0 THEN 1 ELSE 0)]_vars

(***************************************************************************)
(* Properties of a breaker and the monitor together (SpecTracked).         *)
(***************************************************************************)
\* C26: for each breaker name the total time in OPEN grows, when a
\* notification leaves the recorded state OPEN, by the time since the
\* notification that entered OPEN, and does not change otherwise: OPEN
\* reported at t1 and HALF_OPEN at t2 > t1 add t2 - t1 to it.
C26_OpenTimeAccumulated ==
    [][\A name \in DOMAIN api_monitor.circuit_stats :
          LET old == api_monitor.circuit_stats[name]
              new == api_monitor.circuit_stats'[name]
          IN  new.total_open_time =
                  IF old.current_state = OPEN /\ new.current_state # OPEN
                  THEN old.total_open_time + (now - old.last_state_change)
                  ELSE old.total_open_time]_vars

\* C27: every step that changes the breaker's state makes exactly one
\* notification, with the breaker's name, its new state and its failure
\* count, while the breaker's lock is held; the monitor has recorded it when
\* the step ends, so that the state the monitor holds for a breaker it has
\* heard of is always the breaker's state.
C27_TransitionsNotified ==
    /\ [][circuit.state' # circuit.state =>
              /\ last'.notes = <<[name |-> circuit.name,
                                  state |-> circuit.state',
                                  failure_count |-> circuit.failures',
                                  locked |-> TRUE]>>
              /\ circuit.name \in DOMAIN api_monitor.circuit_stats'
              /\ ~circuit.locked']_vars
    /\ [](circuit.name \in DOMAIN api_monitor.circuit_stats =>
              api_monitor.circuit_stats[circuit.name].current_state
                  = circuit.state)

\* the breaker has gone CLOSED -> OPEN -> HALF_OPEN -> OPEN, the monitor
\* following it
C27_Witness ==
    /\ circuit.state = OPEN
    /\ last.op = "record_failure"
    /\ last.notes # <<>>
    /\ circuit.name \in DOMAIN api_monitor.circuit_stats
    /\ api_monitor.circuit_stats[circuit.name].state_change_count >= 4

(***************************************************************************)
(* Properties of the monitor's queries and reset (SpecQueries).            *)
(***************************************************************************)
\* the three dictionaries of the monitor
Maps(monitor) ==
    <<monitor.api_stats, monitor.rate_limits, monitor.circuit_stats>>

\* C28: get_api_stats, get_rate_limits and get_circuit_stats leave the
\* three dictionaries as they are, and asked for a key that has no record
\* they return a default record for it without storing it; after
\* reset_stats() the three dictionaries are empty.
C28_QueriesReadOnly ==
    /\ [][\A key \in Endpoints \cup {"test", "None"} :
              GetApiStats(key) \/ GetRateLimits(key) \/ GetCircuitStats(key)
                  => Maps(api_monitor') = Maps(api_monitor)]_vars
    /\ [][\A key \in Endpoints \ DOMAIN api_monitor.api_stats :
              GetApiStats(key) =>
                  /\ get_api_stats(api_monitor, key).ret
                         = SetItem(EmptyMap, key, ApiCallStats(key))
                  /\ key \notin DOMAIN api_monitor.api_stats']_vars
    /\ [][\A key \in Endpoints \ DOMAIN api_monitor.rate_limits :
              GetRateLimits(key) =>
                  /\ get_rate_limits(api_monitor, key).ret
                         = SetItem(EmptyMap, key, RateLimitStats(key))
                  /\ key \notin DOMAIN api_monitor.rate_limits']_vars
    /\ [][\A key \in {"test"} \ DOMAIN api_monitor.circuit_stats :
              GetCircuitStats(key) =>
                  /\ get_circuit_stats(api_monitor, key).ret
                         = SetItem(EmptyMap, key, CircuitBreakerStats(key))
                  /\ key \notin DOMAIN api_monitor.circuit_stats']_vars
    /\ [][ResetStats =>
              Maps(api_monitor') = <<EmptyMap, EmptyMap, EmptyMap>>]_vars

\* statistics of an endpoint without calls have been asked for while the
\* monitor held calls of the other endpoint, rate limits and a breaker
C28_Witness ==
    /\ last.op = "get_api_stats"
    /\ last.who = "rollout-api"
    /\ DOMAIN api_monitor.api_stats = {"/connectors/"}
    /\ DOMAIN api_monitor.rate_limits # {}
    /\ DOMAIN api_monitor.circuit_stats # {}

(***************************************************************************)
(* Properties of the classification of error messages (SpecClassify).      *)
(***************************************************************************)
\* the same letter, in either case
SameLetter(a, b) ==
    a = b \/ \E k \in DOMAIN Upper : {a, b} = {Upper[k], Lower[k]}

\* the text holds the word, whatever the case of its letters
HasWord(text, word) ==
    \E i \in 0..(Len(text) - Len(word)) :
        \A j \in 1..Len(word) : SameLetter(text[i + j], word[j])

MentionsOpenCircuit(text) ==
    /\ HasWord(text, <<"c", "i", "r", "c", "u", "i", "t">>)
    /\ HasWord(text, <<"o", "p", "e", "n">>)

MentionsRateLimit(text) ==
    HasWord(text, <<"r", "a", "t", "e", " ", "l", "i", "m", "i", "t">>)

MentionsAuth(text) ==
    \/ HasWord(text, <<"a", "u", "t", "h">>)
    \/ HasWord(text, <<"t", "o", "k", "e", "n">>)
    \/ HasWord(text, <<"c", "r", "e", "d", "e", "n", "t", "i", "a", "l", "s">>)

\* C29: a text with "circuit" and "open" in it, in any case, is classified
\* CIRCUIT_BREAKER_OPEN whatever else it holds; a text without both but
\* with "rate limit" is RATE_LIMIT_CRITICAL even with an authentication
\* word in it; a text with neither but with "auth", "token" or
\* "credentials" is AUTH_FAILURE; every other text is
\* REPEATED_SYNC_FAILURE.
C29_ClassifiedInOrder ==
    last.op = "_determine_alert_type" =>
        LET text == last.notes.error
            alert_type == last.notes.alert_type
        IN  /\ MentionsOpenCircuit(text)
                   => alert_type = "CIRCUIT_BREAKER_OPEN"
            /\ (~MentionsOpenCircuit(text) /\ MentionsRateLimit(text))
                   => alert_type = "RATE_LIMIT_CRITICAL"
            /\ (~MentionsOpenCircuit(text) /\ ~MentionsRateLimit(text)
                        /\ MentionsAuth(text))
                   => alert_type = "AUTH_FAILURE"
            /\ (~MentionsOpenCircuit(text) /\ ~MentionsRateLimit(text)
                        /\ ~MentionsAuth(text))
                   => alert_type = "REPEATED_SYNC_FAILURE"

\* a text in capitals with "rate limit" and an authentication word, but
\* without "circuit", has been classified by its rate limit
C29_Witness ==
    /\ last.op = "_determine_alert_type"
    /\ last.notes.alert_type = "RATE_LIMIT_CRITICAL"
    /\ MentionsAuth(last.notes.error)
    /\ ~Contains(<<"r", "a", "t", "e", " ", "l", "i", "m", "i", "t">>,
                 last.notes.error)

(***************************************************************************)
(* Properties of the alert configurations (SpecConfigs).                   *)
(***************************************************************************)
\* C30: update_config(alert_type, config) returns False and changes no
\* configuration when config.type is not alert_type; otherwise it returns
\* True and the configuration of alert_type, and of no other kind, becomes
\* config.  Every kind configured at construction keeps a configuration,
\* of its own type.
C30_ConfigUpdated ==
    /\ [][\A alert_type \in AlertType, config \in SentConfigs :
              UpdateConfig(alert_type, config) =>
                  /\ last'.ret = (config.type = alert_type)
                  /\ \A t \in AlertType :
                         configs'[t] =
                             IF t = alert_type /\ last'.ret THEN config
                             ELSE configs[t]]_vars
    /\ [](/\ DOMAIN configs = DOMAIN default_configs
          /\ \A t \in DOMAIN configs : configs[t].type = t)

\* a configuration has been replaced, and after it an update whose type
\* does not match its kind has been refused
C30_Witness ==
    /\ last.op = "update_config"
    /\ ~last.ret
    /\ configs # default_configs

(***************************************************************************)
(* Properties of the retry delay (SpecBackoff).                            *)
(***************************************************************************)
RECURSIVE Doubled(_)
\* 1 second doubled n times
Doubled(n) == IF n = 0 THEN 1 ELSE 2 * Doubled(n - 1)

\* the longest delay allowed before retry number n
BackoffBound(n) == IF Doubled(n) > 32 THEN 32 ELSE Doubled(n)

\* C31: the delay slept before retry number n is not negative and not
\* longer than the smaller of 32 s and 1 s * 2^n; that bound does not
\* decrease with n and is never above 32 s.
C31_DelayBounded ==
    last.op = "_get_retry_delay" =>
        LET n == last.notes.retry_count IN
        /\ 0 <= last.notes.delay
        /\ last.notes.delay <= BackoffBound(n)
        /\ BackoffBound(n) <= 32
        /\ n > 0 => BackoffBound(n - 1) <= BackoffBound(n)

\* the longest delay of the last retry of call_api has been drawn
C31_Witness ==
    /\ last.op = "_get_retry_delay"
    /\ last.notes.retry_count = MAX_RETRIES - 1
    /\ last.notes.delay = 16

(***************************************************************************)
(* Properties of the failure windows (SpecWindows).                        *)
(***************************************************************************)
\* C32: when the kind of the failure is enabled, its (entity, kind) is not
\* in cooldown and at least threshold failures of the (entity, operation)
\* lie in the last window_minutes, the current one included,
\* record_operation_failure generates an alert, whatever failures of
\* other kinds were recorded before.
C32_ThresholdInWindowAlerts ==
    [][\A e \in Entities, o \in Operations :
          (/\ Recorded(e)
           /\ last'.notes.operation_type = o
           /\ is_enabled(configs[LastKind])
           /\ ~is_in_cooldown(e, LastKind)
           /\ Cardinality(InWindow(e, o, LastKind))
                  >= configs[LastKind].threshold)
              => last'.notes.generated]_vars

\* the failures of the (entity, operation) in the window of alert_type that
\* were themselves classified as alert_type
OfKindInWindow(entity_id, operation_type, alert_type) ==
    {i \in InWindow(entity_id, operation_type, alert_type) :
        failure_kinds'[entity_id][operation_type][i] = alert_type}

\* C33: record_operation_failure generates an alert of a kind only when at
\* least threshold failures of that kind lie in the window of the kind;
\* failures classified as other kinds do not count, so a first failure of
\* a kind with threshold 2 or more never alerts.
C33_OnlyOwnKindCounts ==
    [][\A e \in Entities, o \in Operations :
          (/\ Recorded(e)
           /\ last'.notes.operation_type = o
           /\ last'.notes.generated)
              => Cardinality(OfKindInWindow(e, o, LastKind))
                     >= configs[LastKind].threshold]_vars

(***************************************************************************)
(* Properties of concurrent execute() calls (SpecExecute).                 *)
(***************************************************************************)
\* C34: only the outcomes of calls admitted during the current HALF_OPEN
\* episode count toward closing: the record_success() of a call admitted
\* while the breaker was CLOSED, or in an earlier episode, leaves
\* successful_half_open_calls and the state of a HALF_OPEN breaker as
\* they are.
C34_OnlyTrialCallsCount ==
    [][\A c \in Callers :
          (/\ ExecuteReturn(c)
           /\ circuit.state = HALF_OPEN
           /\ callers[c].admitted # HALF_OPEN)
              => /\ circuit'.state = HALF_OPEN
                 /\ circuit'.successful_half_open_calls
                        = circuit.successful_half_open_calls]_vars

(***************************************************************************)
(* Properties of call_mcp_tool (SpecClient).                               *)
(***************************************************************************)
\* C35: a call_mcp_tool invocation that ends in an error after its retries
\* are exhausted counts as exactly one failure of the rollout-mcp breaker:
\* while the breaker is CLOSED its failures grow by 1, and it opens only
\* when that failure is the failure_threshold-th.
C35_FailedInvocationCountsOnce ==
    [][\A c \in Callers :
          (/\ McpRetry(c)
           /\ last'.exc = "ValueError"
           /\ rollout_client.mcp_circuit.state = CLOSED)
              => /\ rollout_client'.mcp_circuit.failures
                        = rollout_client.mcp_circuit.failures + 1
                 /\ rollout_client'.mcp_circuit.state = OPEN
                        <=> rollout_client.mcp_circuit.failures + 1
                               >= rollout_client.mcp_circuit.failure_threshold]_vars

(***************************************************************************)
(* Invariants of a breaker (SpecCB).                                       *)
(***************************************************************************)
\* C36: between operations, a CLOSED breaker has failures below
\* failure_threshold and an OPEN or HALF_OPEN one has failures equal to it;
\* successful_half_open_calls lies in 0..half_open_max_calls - 1 and
\* half_open_calls_in_progress in 0..half_open_max_calls; both half-open
\* counters are 0 whenever the state is not HALF_OPEN.
C36_BreakerInvariants ==
    /\ circuit.state = CLOSED => circuit.failures < circuit.failure_threshold
    /\ circuit.state \in {OPEN, HALF_OPEN}
           => circuit.failures = circuit.failure_threshold
    /\ circuit.successful_half_open_calls \in 0..(circuit.half_open_max_calls - 1)
    /\ circuit.half_open_calls_in_progress \in 0..circuit.half_open_max_calls
    /\ circuit.state # HALF_OPEN
           => /\ circuit.successful_half_open_calls = 0
              /\ circuit.half_open_calls_in_progress = 0

\* a HALF_OPEN breaker with every trial call admitted and one success short
\* of closing
C36_Witness ==
    /\ circuit.state = HALF_OPEN
    /\ circuit.half_open_max_calls = 2
    /\ circuit.half_open_calls_in_progress = circuit.half_open_max_calls
    /\ circuit.successful_half_open_calls = circuit.half_open_max_calls - 1
    /\ circuit.failures = circuit.failure_threshold

\* C37: while the breaker is OPEN, record_success() and record_failure()
\* change nothing of it (state, failures, last_failure_time, half-open
\* counters) and notify nobody.
C37_OpenIgnoresOutcomes ==
    [][(/\ RecordSuccess \/ RecordFailure
        /\ circuit.state = OPEN)
           => /\ circuit' = circuit
              /\ last'.notes = <<>>]_vars

\* a failure has been reported to a breaker that had reopened earlier
C37_Witness ==
    /\ circuit.state = OPEN
    /\ last.op = "record_failure"
    /\ last.exc = "RolloutServerError"
    /\ obs.via = "reopen"
    /\ now > circuit.last_failure_time

(***************************************************************************)
(* Properties of call_api's metrics (SpecMetered).                         *)
(***************************************************************************)
\* the step ends an invocation of call_api by caller c
Ends(c) ==
    /\ last'.op = "call_api"
    /\ last'.who = c
    /\ callers'[c].pc = "idle"

EndpointStats(monitor) ==
    Get(monitor.api_stats, MeteredEndpoint, ApiCallStats(MeteredEndpoint))

\* C38: an invocation of call_api by a caller records exactly one outcome
\* for its endpoint, however many retries it made: success_count +
\* error_count grows by 1, by a success exactly if the call returned a
\* result, and a call that succeeds leaves error_count as it was.
C38_OneOutcomePerCall ==
    [][\A c \in Callers :
          Ends(c) =>
             /\ Outcomes(api_monitor', MeteredEndpoint)
                    = Outcomes(api_monitor, MeteredEndpoint) + 1
             /\ EndpointStats(api_monitor').success_count
                    = EndpointStats(api_monitor).success_count
                         + (IF last'.ret THEN 1 ELSE 0)
             /\ last'.ret => EndpointStats(api_monitor').error_count
                                = EndpointStats(api_monitor).error_count]_vars

(***************************************************************************)
(* Properties of the state changes the monitor counts (SpecTracked).       *)
(***************************************************************************)
StateChangeCount(monitor, name) ==
    Get(monitor.circuit_stats, name, CircuitBreakerStats(name)).state_change_count

\* C39: the state_change_count recorded under the breaker's name equals the
\* number of state transitions the breaker performed: it grows by 1 in a
\* step in which the breaker changes state and not at all in any other, a
\* notification of the state the breaker was already in included.
C39_StateChangesCounted ==
    [][StateChangeCount(api_monitor', circuit.name)
          = StateChangeCount(api_monitor, circuit.name)
               + (IF circuit'.state # circuit.state THEN 1 ELSE 0)]_vars

(***************************************************************************)
(* Properties of the average response time (SpecMonitor).                  *)
(***************************************************************************)
\* C40: the average response time of an endpoint is the sum of the retained
\* response times divided by their number, also after more successful
\* calls than the window holds were recorded and old values were evicted.
C40_AverageOfRetained ==
    \A endpoint \in DOMAIN api_monitor.api_stats :
        LET stats == api_monitor.api_stats[endpoint]
            average == average_response_time(stats)
        IN  stats.response_times # <<>>
               => average.numerator * Len(stats.response_times)
                     = SumOf(stats.response_times) * average.denominator

====
